---------------------------- MODULE Spec2Model ----------------------------
(***************************************************************************)
(* A model of the TextManipulation node                                    *)
(* (nodes/TextManipulation/TextManipulation.node.ts, class                 *)
(* TextManipulation, method execute and the helper functions above it).    *)
(*                                                                         *)
(* Representation.                                                         *)
(*   - A text is a sequence of UTF-16 code units (naturals below 2^16).    *)
(*   - A byte buffer is a sequence of naturals below 256.                  *)
(*   - An option value (an enum of the node description) is a TLA+ string. *)
(*   - A JSON value is a tagged record; the tag is the JavaScript typeof   *)
(*     result, with "null" kept apart from "object".                       *)
(*   - A key path is the sequence of its characters grouped in tokens:     *)
(*     key names and the separator ".", as lodash's stringToPath reads it. *)
(***************************************************************************)
EXTENDS Naturals, Integers, Sequences, FiniteSets, TLC

(***************************************************************************)
(* Bounds of the model.                                                    *)
(***************************************************************************)
\* number of input items of one execution
MaxItems == 2
\* number of text groups (textsWithManipulationsValues) of one item
MaxGroups == 2
\* number of data sources read during one execution
MaxSources == 2
\* number of manipulations of one text group
MaxManipulations == 2

(***************************************************************************)
(* JSON values (IDataObject) and JavaScript coercions.                     *)
(***************************************************************************)
Undefined == [t |-> "undefined"]
JNull == [t |-> "null"]
JStr(s) == [t |-> "string", s |-> s]
JNum(n) == [t |-> "number", n |-> n]
JBool(b) == [t |-> "boolean", b |-> b]
JObj(f) == [t |-> "object", o |-> f]

\* the object literal {}
EmptyObject == JObj(<<>>)

IsObject(v) == v.t = "object"

\* own property read: object[key]
Prop(v, key) ==
    IF IsObject(v) /\ key \in DOMAIN v.o THEN v.o[key] ELSE Undefined

\* own property write: object[key] = value
WithProp(v, key, value) ==
    JObj([k \in (DOMAIN v.o) \cup {key} |-> IF k = key THEN value ELSE v.o[k]])

\* JavaScript ToBoolean, as used by the || and && operators
Truthy(v) ==
    CASE v.t = "undefined" -> FALSE
      [] v.t = "null" -> FALSE
      [] v.t = "string" -> v.s # <<>>
      [] v.t = "number" -> v.n # 0
      [] v.t = "boolean" -> v.b
      [] OTHER -> TRUE

\* decimal digits of a natural number, as code units (Number.prototype.toString)
RECURSIVE NatToString(_)
NatToString(n) ==
    IF n < 10 THEN <<48 + n>> ELSE NatToString(n \div 10) \o <<48 + (n % 10)>>

\* "true", "false" and "[object Object]" as code units
TrueText == <<116, 114, 117, 101>>
FalseText == <<102, 97, 108, 115, 101>>
ObjectText == <<91, 111, 98, 106, 101, 99, 116, 32, 79, 98, 106, 101, 99, 116, 93>>

\* value.toString() of a value that is neither null nor undefined
ToStringJS(v) ==
    CASE v.t = "string" -> v.s
      [] v.t = "number" -> NatToString(v.n)
      [] v.t = "boolean" -> (IF v.b THEN TrueText ELSE FalseText)
      [] OTHER -> ObjectText

(***************************************************************************)
(* lodash get and set over dot-separated key paths.                        *)
(***************************************************************************)
\* stringToPath: the key names of a path, split at the separator "."
RECURSIVE StringToPath(_)
StringToPath(p) ==
    IF p = <<>> THEN <<>>
    ELSE IF Head(p) = "." THEN StringToPath(Tail(p))
    ELSE <<Head(p)>> \o StringToPath(Tail(p))

\* baseGet: walk the keys; undefined as soon as a step has no such property
RECURSIVE BaseGet(_, _)
BaseGet(v, keys) ==
    IF keys = <<>> THEN v
    ELSE IF ~IsObject(v) THEN Undefined
    ELSE BaseGet(Prop(v, Head(keys)), Tail(keys))

\* get(object, path)
Get(object, path) == BaseGet(object, StringToPath(path))

\* baseSet: an intermediate value that is not an object is replaced by {}
RECURSIVE BaseSet(_, _, _)
BaseSet(v, keys, value) ==
    IF Len(keys) = 1 THEN WithProp(v, Head(keys), value)
    ELSE LET objValue == Prop(v, Head(keys))
             nested == IF IsObject(objValue) THEN objValue ELSE EmptyObject
         IN WithProp(v, Head(keys), BaseSet(nested, Tail(keys), value))

\* set(object, path, value), returning the object after the write
Set(object, path, value) ==
    IF ~IsObject(object) THEN object
    ELSE BaseSet(object, StringToPath(path), value)

(***************************************************************************)
(* Byte buffers and the encodings of iconv-lite used by the model:         *)
(* "utf8" (BOM aware) and "iso88591" (single byte, not BOM aware).         *)
(***************************************************************************)
IsHighSurrogate(u) == u >= 55296 /\ u <= 56319
IsLowSurrogate(u) == u >= 56320 /\ u <= 57343
IsContinuation(b) == b >= 128 /\ b <= 191

\* the UTF-8 bytes of one code point
Utf8Bytes(cp) ==
    IF cp < 128 THEN <<cp>>
    ELSE IF cp < 2048 THEN <<192 + (cp \div 64), 128 + (cp % 64)>>
    ELSE IF cp < 65536
         THEN <<224 + (cp \div 4096), 128 + ((cp \div 64) % 64), 128 + (cp % 64)>>
    ELSE <<240 + (cp \div 262144), 128 + ((cp \div 4096) % 64),
           128 + ((cp \div 64) % 64), 128 + (cp % 64)>>

\* Buffer.from(text, 'utf8'): a surrogate pair is one code point, a lone
\* surrogate is written as U+FFFD
RECURSIVE Utf8Encode(_)
Utf8Encode(s) ==
    IF s = <<>> THEN <<>>
    ELSE LET u == Head(s) IN
         IF IsHighSurrogate(u) /\ Len(s) > 1 /\ IsLowSurrogate(s[2])
         THEN Utf8Bytes(65536 + (u - 55296) * 1024 + (s[2] - 56320))
              \o Utf8Encode(Tail(Tail(s)))
         ELSE IF IsHighSurrogate(u) \/ IsLowSurrogate(u)
         THEN Utf8Bytes(65533) \o Utf8Encode(Tail(s))
         ELSE Utf8Bytes(u) \o Utf8Encode(Tail(s))

\* the code units of one code point
CodeUnits(cp) ==
    IF cp < 65536 THEN <<cp>>
    ELSE <<55296 + ((cp - 65536) \div 1024), 56320 + ((cp - 65536) % 1024)>>

\* number of continuation bytes a lead byte announces (0: not a lead byte)
Utf8Need(b) ==
    IF b >= 194 /\ b <= 223 THEN 1
    ELSE IF b >= 224 /\ b <= 239 THEN 2
    ELSE IF b >= 240 /\ b <= 244 THEN 3
    ELSE 0

\* the range the first continuation byte of a lead byte must lie in
Utf8SecondOk(lead, b) ==
    CASE lead = 224 -> b >= 160 /\ b <= 191
      [] lead = 237 -> b >= 128 /\ b <= 159
      [] lead = 240 -> b >= 144 /\ b <= 191
      [] lead = 244 -> b >= 128 /\ b <= 143
      [] OTHER -> IsContinuation(b)

\* number of well-formed continuation bytes that follow the lead byte b[1]
RECURSIVE Utf8Have(_, _, _)
Utf8Have(b, k, need) ==
    IF k > need \/ k + 1 > Len(b) THEN k - 1
    ELSE IF (k = 1 /\ Utf8SecondOk(b[1], b[2])) \/ (k > 1 /\ IsContinuation(b[k + 1]))
         THEN Utf8Have(b, k + 1, need)
         ELSE k - 1

\* the code point of a well-formed sequence of 1 + need bytes
Utf8CodePoint(b, need) ==
    CASE need = 1 -> (b[1] - 192) * 64 + (b[2] - 128)
      [] need = 2 -> (b[1] - 224) * 4096 + (b[2] - 128) * 64 + (b[3] - 128)
      [] OTHER -> (b[1] - 240) * 262144 + (b[2] - 128) * 4096
                  + (b[3] - 128) * 64 + (b[4] - 128)

\* buffer.toString('utf8'): every ill-formed maximal subpart becomes U+FFFD
RECURSIVE Utf8Decode(_)
Utf8Decode(b) ==
    IF b = <<>> THEN <<>>
    ELSE IF Head(b) < 128 THEN <<Head(b)>> \o Utf8Decode(Tail(b))
    ELSE LET need == Utf8Need(Head(b))
             have == IF need = 0 THEN 0 ELSE Utf8Have(b, 1, need)
         IN IF need > 0 /\ have = need
            THEN CodeUnits(Utf8CodePoint(b, need))
                 \o Utf8Decode(SubSeq(b, need + 2, Len(b)))
            ELSE <<65533>> \o Utf8Decode(SubSeq(b, have + 2, Len(b)))

\* the byte order mark as a code unit
BOMChar == <<65279>>

\* encodings[name].bomAware
BomAware(encoding) == encoding = "utf8"

\* the single byte encoder: a character outside the table is written as "?"
RECURSIVE SbcsEncode(_)
SbcsEncode(s) ==
    IF s = <<>> THEN <<>>
    ELSE <<IF Head(s) < 256 THEN Head(s) ELSE 63>> \o SbcsEncode(Tail(s))

\* iconv.encodingExists
EncodingExists(encoding) == encoding \in {"utf8", "iso88591"}

\* an option of an options object; a missing option reads as undefined
HasOption(options, name) == name \in DOMAIN options

\* iconv.encode(text, encoding, options): the BOM is written only when
\* options.addBOM is set, and only by a BOM aware encoding
IconvEncode(s, encoding, options) ==
    IF BomAware(encoding)
    THEN Utf8Encode(IF HasOption(options, "addBOM") /\ options.addBOM
                    THEN BOMChar \o s ELSE s)
    ELSE SbcsEncode(s)

\* iconv.decode(buffer, encoding, options): a BOM aware encoding drops a
\* leading BOM unless options.stripBOM is false
IconvDecode(b, encoding, options) ==
    IF BomAware(encoding)
    THEN LET s == Utf8Decode(b)
             strip == ~(HasOption(options, "stripBOM") /\ ~options.stripBOM)
         IN IF strip /\ s # <<>> /\ <<Head(s)>> = BOMChar THEN Tail(s) ELSE s
    ELSE b

(***************************************************************************)
(* BINARY_ENCODING = 'base64': the data of an attachment is base64 text.   *)
(***************************************************************************)
\* the character of a 6 bit value
Base64Char(v) ==
    IF v < 26 THEN 65 + v
    ELSE IF v < 52 THEN 97 + (v - 26)
    ELSE IF v < 62 THEN 48 + (v - 52)
    ELSE IF v = 62 THEN 43 ELSE 47

\* the 6 bit value of a character of the alphabet
Base64Value(c) ==
    IF c >= 65 /\ c <= 90 THEN c - 65
    ELSE IF c >= 97 /\ c <= 122 THEN c - 97 + 26
    ELSE IF c >= 48 /\ c <= 57 THEN c - 48 + 52
    ELSE IF c = 43 THEN 62 ELSE 63

\* buffer.toString('base64')
RECURSIVE Base64Encode(_)
Base64Encode(b) ==
    IF b = <<>> THEN <<>>
    ELSE IF Len(b) = 1
    THEN <<Base64Char(b[1] \div 4), Base64Char((b[1] % 4) * 16), 61, 61>>
    ELSE IF Len(b) = 2
    THEN <<Base64Char(b[1] \div 4), Base64Char((b[1] % 4) * 16 + (b[2] \div 16)),
           Base64Char((b[2] % 16) * 4), 61>>
    ELSE <<Base64Char(b[1] \div 4), Base64Char((b[1] % 4) * 16 + (b[2] \div 16)),
           Base64Char((b[2] % 16) * 4 + (b[3] \div 64)), Base64Char(b[3] % 64)>>
         \o Base64Encode(SubSeq(b, 4, Len(b)))

\* Buffer.from(data, 'base64') of padded base64 text
RECURSIVE Base64Decode(_)
Base64Quad(s, v1, v2, v3, v4) ==
    IF s[3] = 61 THEN <<v1 * 4 + (v2 \div 16)>>
    ELSE IF s[4] = 61
    THEN <<v1 * 4 + (v2 \div 16), (v2 % 16) * 16 + (v3 \div 4)>>
    ELSE <<v1 * 4 + (v2 \div 16), (v2 % 16) * 16 + (v3 \div 4),
           (v3 % 4) * 64 + v4>>
         \o Base64Decode(SubSeq(s, 5, Len(s)))
Base64Decode(s) ==
    IF Len(s) < 4 THEN <<>>
    ELSE Base64Quad(s, Base64Value(s[1]), Base64Value(s[2]),
                    Base64Value(s[3]), Base64Value(s[4]))

\* this.helpers.prepareBinaryData(buffer, fileName, mimeType)
PrepareBinaryData(buffer, fileName, mimeType) ==
    [data |-> Base64Encode(buffer), fileName |-> fileName, mimeType |-> mimeType]

(***************************************************************************)
(* String primitives of JavaScript and lodash used by the manipulations.   *)
(***************************************************************************)
\* the concatenation of a sequence of texts
RECURSIVE Flatten(_)
Flatten(ss) == IF ss = <<>> THEN <<>> ELSE Head(ss) \o Flatten(Tail(ss))

\* the characters String.prototype.trim removes (WhiteSpace and LineTerminator)
WhiteSpace ==
    {9, 10, 11, 12, 13, 32, 160, 5760, 8232, 8233, 8239, 8287, 12288, 65279}
    \cup (8192 .. 8202)

\* the longest prefix / suffix of s made of characters of the set cs
RECURSIVE LeadingIn(_, _)
LeadingIn(s, cs) ==
    IF s # <<>> /\ Head(s) \in cs THEN 1 + LeadingIn(Tail(s), cs) ELSE 0

RECURSIVE TrailingIn(_, _)
TrailingIn(s, cs) ==
    IF s # <<>> /\ s[Len(s)] \in cs
    THEN 1 + TrailingIn(SubSeq(s, 1, Len(s) - 1), cs) ELSE 0

DropLeading(s, cs) == SubSeq(s, LeadingIn(s, cs) + 1, Len(s))
DropTrailing(s, cs) == SubSeq(s, 1, Len(s) - TrailingIn(s, cs))

\* String.prototype.trimStart, trimEnd and trim
JsTrimStart(s) == DropLeading(s, WhiteSpace)
JsTrimEnd(s) == DropTrailing(s, WhiteSpace)
JsTrim(s) == DropTrailing(DropLeading(s, WhiteSpace), WhiteSpace)

\* the characters of a text, as a set
Chars(s) == {s[i] : i \in DOMAIN s}

\* lodash trimStart, trimEnd and trim with a chars argument: an empty text or
\* an empty chars argument returns the text; otherwise the characters of
\* chars are removed from the end(s)
LodashTrimStart(s, chars) ==
    IF s = <<>> \/ chars = <<>> THEN s ELSE DropLeading(s, Chars(chars))
LodashTrimEnd(s, chars) ==
    IF s = <<>> \/ chars = <<>> THEN s ELSE DropTrailing(s, Chars(chars))
LodashTrim(s, chars) ==
    IF s = <<>> \/ chars = <<>> THEN s
    ELSE DropTrailing(DropLeading(s, Chars(chars)), Chars(chars))

\* whether text s holds the text u at position i (1-based)
StartsWithAt(s, u, i) ==
    /\ i + Len(u) - 1 <= Len(s)
    /\ SubSeq(s, i, i + Len(u) - 1) = u

\* the match of the regular expression ^(u)+ at the start of s: its length
RECURSIVE LeadingUnits(_, _)
LeadingUnits(s, u) ==
    IF u # <<>> /\ StartsWithAt(s, u, 1)
    THEN Len(u) + LeadingUnits(SubSeq(s, Len(u) + 1, Len(s)), u) ELSE 0

\* the match of the regular expression (u)+$ in s: its length
RECURSIVE TrailingUnits(_, _)
TrailingUnits(s, u) ==
    IF u # <<>> /\ Len(u) <= Len(s) /\ SubSeq(s, Len(s) - Len(u) + 1, Len(s)) = u
    THEN Len(u) + TrailingUnits(SubSeq(s, 1, Len(s) - Len(u)), u) ELSE 0

\* charsTrimStart(str, chars)
charsTrimStart(str, chars) ==
    IF chars = <<32>> THEN JsTrimStart(str)
    ELSE SubSeq(str, LeadingUnits(str, chars) + 1, Len(str))

\* a charsTrimEnd that removes one unit: the expression (chars)$
charsTrimEndOnce(str, chars) ==
    IF chars = <<32>> THEN JsTrimEnd(str)
    ELSE IF Len(chars) <= Len(str) /\ StartsWithAt(str, chars, Len(str) - Len(chars) + 1)
    THEN SubSeq(str, 1, Len(str) - Len(chars)) ELSE str

\* charsTrimEnd(str, chars)
charsTrimEnd(str, chars) ==
    IF chars = <<32>> THEN JsTrimEnd(str)
    ELSE SubSeq(str, 1, Len(str) - TrailingUnits(str, chars))

\* a trim of the characters of chars in place of the trim of chars as a unit
charsTrimPerCharacter(str, chars) == LodashTrim(str, chars)

\* charsTrim(str, chars): one global replace; the scan for the trailing
\* alternative resumes after the leading match
charsTrim(str, chars) ==
    IF chars = <<32>> THEN JsTrim(str)
    ELSE LET rest == SubSeq(str, LeadingUnits(str, chars) + 1, Len(str))
         IN SubSeq(rest, 1, Len(rest) - TrailingUnits(rest, chars))

\* String.prototype.toUpperCase of one code unit (ASCII and Latin-1 letters)
UpperUnit(c) ==
    IF c >= 97 /\ c <= 122 THEN <<c - 32>>
    ELSE IF c = 223 THEN <<83, 83>>
    ELSE IF c >= 224 /\ c <= 254 /\ c # 247 THEN <<c - 32>>
    ELSE IF c = 255 THEN <<376>>
    ELSE IF c = 305 THEN <<73>>
    ELSE <<c>>

\* String.prototype.toLowerCase of one code unit (ASCII and Latin-1 letters)
LowerUnit(c) ==
    IF c >= 65 /\ c <= 90 THEN <<c + 32>>
    ELSE IF c >= 192 /\ c <= 222 /\ c # 215 THEN <<c + 32>>
    ELSE IF c = 304 THEN <<105, 775>>
    ELSE IF c = 376 THEN <<255>>
    ELSE <<c>>

ToUpperCase(s) == Flatten([i \in DOMAIN s |-> UpperUnit(s[i])])
ToLowerCase(s) == Flatten([i \in DOMAIN s |-> LowerUnit(s[i])])

\* toLocaleUpperCase / toLocaleLowerCase: Turkish and Azeri map the dotted
\* and the dotless i differently; other languages use the default mapping
TurkicLanguage(language) == language \in {"tr", "az"}
ToLocaleUpperCase(s, language) ==
    Flatten([i \in DOMAIN s |->
        IF TurkicLanguage(language) /\ s[i] = 105 THEN <<304>> ELSE UpperUnit(s[i])])
ToLocaleLowerCase(s, language) ==
    Flatten([i \in DOMAIN s |->
        IF TurkicLanguage(language) /\ s[i] = 73 THEN <<305>>
        ELSE IF TurkicLanguage(language) /\ s[i] = 304 THEN <<105>>
        ELSE LowerUnit(s[i])])

\* lodash upperFirst and capitalize
UpperFirst(s) ==
    IF s = <<>> THEN s ELSE UpperUnit(Head(s)) \o Tail(s)
Capitalize(s) == UpperFirst(ToLowerCase(s))

\* String.prototype.split(sep) for a one character separator
RECURSIVE SplitAt(_, _, _)
SplitAt(s, sep, cur) ==
    IF s = <<>> THEN <<cur>>
    ELSE IF Head(s) = sep THEN <<cur>> \o SplitAt(Tail(s), sep, <<>>)
    ELSE SplitAt(Tail(s), sep, Append(cur, Head(s)))
Split(s, sep) == SplitAt(s, sep, <<>>)

\* Array.prototype.join
RECURSIVE Join(_, _)
Join(ss, sep) ==
    IF ss = <<>> THEN <<>>
    ELSE IF Len(ss) = 1 THEN Head(ss)
    ELSE Head(ss) \o sep \o Join(Tail(ss), sep)

\* text.split(' ').map(capitalize).join(' ')
TitleCase(s) ==
    LET parts == Split(s, 32)
    IN Join([i \in DOMAIN parts |-> Capitalize(parts[i])], <<32>>)

IsLowerLetter(c) == c >= 97 /\ c <= 122
IsUpperLetter(c) == c >= 65 /\ c <= 90
IsDigit(c) == c >= 48 /\ c <= 57
IsWordChar(c) == IsLowerLetter(c) \/ IsUpperLetter(c) \/ IsDigit(c)

\* whether a word of lodash words() ends between s[i] and s[i + 1]: at a
\* character that is no letter or digit, between a lower case and an upper
\* case letter, before the last upper case letter of a run that a lower
\* case letter follows, and between letters and digits
WordBreak(s, i) ==
    \/ ~IsWordChar(s[i]) \/ ~IsWordChar(s[i + 1])
    \/ IsLowerLetter(s[i]) /\ IsUpperLetter(s[i + 1])
    \/ IsUpperLetter(s[i]) /\ IsUpperLetter(s[i + 1])
       /\ i + 2 <= Len(s) /\ IsLowerLetter(s[i + 2])
    \/ IsDigit(s[i]) # IsDigit(s[i + 1])

\* lodash words() of a text of ASCII letters, digits and separators
RECURSIVE WordsFrom(_, _, _)
WordsFrom(s, i, cur) ==
    LET cur2 == IF IsWordChar(s[i]) THEN Append(cur, s[i]) ELSE cur
        done == IF cur2 = <<>> THEN <<>> ELSE <<cur2>>
    IN IF i = Len(s) THEN done
       ELSE IF WordBreak(s, i) THEN done \o WordsFrom(s, i + 1, <<>>)
       ELSE WordsFrom(s, i + 1, cur2)
Words(s) == IF s = <<>> THEN <<>> ELSE WordsFrom(s, 1, <<>>)

\* lodash camelCase, kebabCase, snakeCase and startCase
CamelCase(s) ==
    LET w == Words(s)
    IN Flatten([i \in DOMAIN w |->
           IF i = 1 THEN ToLowerCase(w[i]) ELSE Capitalize(w[i])])
KebabCase(s) ==
    LET w == Words(s) IN Join([i \in DOMAIN w |-> ToLowerCase(w[i])], <<45>>)
SnakeCase(s) ==
    LET w == Words(s) IN Join([i \in DOMAIN w |-> ToLowerCase(w[i])], <<95>>)
StartCase(s) ==
    LET w == Words(s) IN Join([i \in DOMAIN w |-> UpperFirst(w[i])], <<32>>)

\* canonical / compatibility decomposition of one code unit, for the
\* characters of the model's texts that have one
Decompose(c, compat) ==
    IF c = 233 THEN <<101, 769>>
    ELSE IF c = 201 THEN <<69, 769>>
    ELSE IF compat /\ c = 160 THEN <<32>>
    ELSE IF compat /\ c = 64257 THEN <<102, 105>>
    ELSE <<c>>

\* canonical composition of adjacent pairs
RECURSIVE Compose(_)
Compose(s) ==
    IF Len(s) < 2 THEN s
    ELSE IF s[1] = 101 /\ s[2] = 769 THEN <<233>> \o Compose(Tail(Tail(s)))
    ELSE IF s[1] = 69 /\ s[2] = 769 THEN <<201>> \o Compose(Tail(Tail(s)))
    ELSE <<Head(s)>> \o Compose(Tail(s))

\* String.prototype.normalize(form)
Normalize(s, form) ==
    LET d == Flatten([i \in DOMAIN s |-> Decompose(s[i], form \in {"NFKC", "NFKD"})])
    IN IF form \in {"NFC", "NFKC"} THEN Compose(d) ELSE d

\* String.prototype.repeat(count) for count >= 0
RECURSIVE Repeat(_, _)
Repeat(s, count) == IF count <= 0 \/ s = <<>> THEN <<>> ELSE s \o Repeat(s, count - 1)

\* the fill of padStart / padEnd: the pad string repeated and cut to n
Fill(padString, n) ==
    SubSeq(Repeat(padString, (n \div Len(padString)) + 1), 1, n)

\* padStart with the fill string written once, neither repeated nor cut
PadStartOnce(s, targetLength, padString) ==
    IF targetLength <= Len(s) \/ padString = <<>> THEN s ELSE padString \o s

\* String.prototype.padStart and padEnd
PadStart(s, targetLength, padString) ==
    IF targetLength <= Len(s) \/ padString = <<>> THEN s
    ELSE Fill(padString, targetLength - Len(s)) \o s
PadEnd(s, targetLength, padString) ==
    IF targetLength <= Len(s) \/ padString = <<>> THEN s
    ELSE s \o Fill(padString, targetLength - Len(s))

\* a bound of substring within 0 .. length
Clamp(n, len) == IF n < 0 THEN 0 ELSE IF n > len THEN len ELSE n

\* a substring that takes the bounds in the order given, as slice does
SubstringInOrder(s, start, end) ==
    SubSeq(s, Clamp(start, Len(s)) + 1, Clamp(end, Len(s)))

\* String.prototype.substring(start, end): both bounds are clamped to
\* 0 .. length and swapped when start > end
Substring(s, start, end) ==
    LET a == Clamp(start, Len(s))
        b == Clamp(end, Len(s))
    IN IF a <= b THEN SubSeq(s, a + 1, b) ELSE SubSeq(s, b + 1, a)

(***************************************************************************)
(* String.prototype.replace and the helpers built on it.                   *)
(***************************************************************************)
\* the position (1-based) of the first occurrence of u in s at or after
\* position from, 0 if there is none
RECURSIVE IndexOf(_, _, _)
IndexOf(s, u, from) ==
    IF from + Len(u) - 1 > Len(s) THEN 0
    ELSE IF StartsWithAt(s, u, from) THEN from
    ELSE IndexOf(s, u, from + 1)

\* GetSubstitution: the replacement text of one match. matched is the match,
\* position the number of characters before it, captures the groups.
\* $$ is a dollar sign, $& the match, $` the text before it, $' the text
\* after it, $n and $nn a capture group if there is such a group
RECURSIVE GetSubstitution(_, _, _, _, _)
GetSubstitution(template, matched, position, str, captures) ==
    IF template = <<>> THEN <<>>
    ELSE IF Head(template) # 36 \/ Len(template) = 1
    THEN <<Head(template)>>
         \o GetSubstitution(Tail(template), matched, position, str, captures)
    ELSE LET c == template[2]
             rest2 == SubSeq(template, 3, Len(template))
             rest3 == SubSeq(template, 4, Len(template))
             d1 == c - 48
             d2 == IF Len(template) >= 3 /\ IsDigit(template[3])
                   THEN d1 * 10 + (template[3] - 48) ELSE 0
         IN IF c = 36
            THEN <<36>> \o GetSubstitution(rest2, matched, position, str, captures)
            ELSE IF c = 38
            THEN matched \o GetSubstitution(rest2, matched, position, str, captures)
            ELSE IF c = 96
            THEN SubSeq(str, 1, position)
                 \o GetSubstitution(rest2, matched, position, str, captures)
            ELSE IF c = 39
            THEN SubSeq(str, position + Len(matched) + 1, Len(str))
                 \o GetSubstitution(rest2, matched, position, str, captures)
            ELSE IF IsDigit(c) /\ d2 >= 1 /\ d2 <= Len(captures)
            THEN captures[d2]
                 \o GetSubstitution(rest3, matched, position, str, captures)
            ELSE IF IsDigit(c) /\ d1 >= 1 /\ d1 <= Len(captures)
            THEN captures[d1]
                 \o GetSubstitution(rest2, matched, position, str, captures)
            ELSE <<36>>
                 \o GetSubstitution(Tail(template), matched, position, str, captures)

\* str.replace(substr, newSubstr) with a string pattern: the first occurrence
ReplaceFirst(str, substr, newSubstr) ==
    LET i == IndexOf(str, substr, 1)
    IN IF i = 0 THEN str
       ELSE SubSeq(str, 1, i - 1)
            \o GetSubstitution(newSubstr, substr, i - 1, str, <<>>)
            \o SubSeq(str, i + Len(substr), Len(str))

\* str.replace(new RegExp(escapeRegExp(substr), 'g'), newSubstr) from position
\* from on: every occurrence, left to right, not overlapping; the empty
\* pattern matches before every character and at the end
RECURSIVE ReplaceAllFrom(_, _, _, _)
ReplaceAllFrom(str, substr, newSubstr, from) ==
    IF substr = <<>>
    THEN GetSubstitution(newSubstr, <<>>, from - 1, str, <<>>)
         \o (IF from > Len(str) THEN <<>>
             ELSE <<str[from]>> \o ReplaceAllFrom(str, substr, newSubstr, from + 1))
    ELSE LET i == IndexOf(str, substr, from)
         IN IF i = 0 THEN SubSeq(str, from, Len(str))
            ELSE SubSeq(str, from, i - 1)
                 \o GetSubstitution(newSubstr, substr, i - 1, str, <<>>)
                 \o ReplaceAllFrom(str, substr, newSubstr, i + Len(substr))

\* a replaceAll that replaces the first occurrence only
replaceAllFirstOnly(str, substr, newSubstr) ==
    ReplaceFirst(str, substr, newSubstr)

\* replaceAll(str, substr, newSubstr)
replaceAll(str, substr, newSubstr) == ReplaceAllFrom(str, substr, newSubstr, 1)

(***************************************************************************)
(* unescapeEscapedCharacters                                               *)
(***************************************************************************)
IsHex(c) == IsDigit(c) \/ (c >= 97 /\ c <= 102) \/ (c >= 65 /\ c <= 70)
HexDigit(c) == IF IsDigit(c) THEN c - 48 ELSE IF c >= 97 THEN c - 87 ELSE c - 55

\* parseInt(digits, 16)
RECURSIVE ParseHex(_)
ParseHex(d) ==
    IF d = <<>> THEN 0
    ELSE ParseHex(SubSeq(d, 1, Len(d) - 1)) * 16 + HexDigit(d[Len(d)])

AllHex(d) == \A i \in DOMAIN d : IsHex(d[i])

\* a fromCharCode that keeps the whole number
FromCharCodeWhole(n) == n

\* String.fromCharCode: the argument is taken modulo 2^16
FromCharCode(n) == n % 65536

\* the character of the first alternative (\0 \' \" \n \r \v \t \b \f), or -1
SimpleEscape(c) ==
    CASE c = 48 -> 0
      [] c = 39 -> 39
      [] c = 34 -> 34
      [] c = 110 -> 10
      [] c = 114 -> 13
      [] c = 118 -> 11
      [] c = 116 -> 9
      [] c = 98 -> 8
      [] c = 102 -> 12
      [] OTHER -> -1

\* the digits of a braced escape: 0*(?:10|[\da-fA-F])?[\da-fA-F]{1,4}
BracedDigitsOk(d) ==
    /\ d # <<>>
    /\ AllHex(d)
    /\ LET z == LeadingIn(d, {48})
           n == Len(d) - z
       IN \/ n <= 5
          \/ n = 6 /\ d[z + 1] = 49 /\ d[z + 2] = 48

\* the characters "." of a regular expression does not match
LineTerminators == {10, 13, 8232, 8233}

\* position of the first "}" of s at or after position i, 0 if none
RECURSIVE FindBrace(_, _)
FindBrace(s, i) ==
    IF i > Len(s) THEN 0 ELSE IF s[i] = 125 THEN i ELSE FindBrace(s, i + 1)

\* the scan of the replace callback from position i on
RECURSIVE UnescapeFrom(_, _)
UnescapeFrom(s, i) ==
    IF i > Len(s) THEN <<>>
    ELSE IF s[i] # 92 \/ i = Len(s) THEN <<s[i]>> \o UnescapeFrom(s, i + 1)
    ELSE LET c == s[i + 1]
             close == FindBrace(s, i + 3)
         IN IF SimpleEscape(c) >= 0
            THEN <<SimpleEscape(c)>> \o UnescapeFrom(s, i + 2)
            ELSE IF c = 117 /\ i + 5 <= Len(s) /\ AllHex(SubSeq(s, i + 2, i + 5))
            THEN <<FromCharCode(ParseHex(SubSeq(s, i + 2, i + 5)))>>
                 \o UnescapeFrom(s, i + 6)
            ELSE IF c = 120 /\ i + 3 <= Len(s) /\ AllHex(SubSeq(s, i + 2, i + 3))
            THEN <<FromCharCode(ParseHex(SubSeq(s, i + 2, i + 3)))>>
                 \o UnescapeFrom(s, i + 4)
            ELSE IF /\ c = 117 /\ i + 2 <= Len(s) /\ s[i + 2] = 123 /\ close > 0
                    /\ BracedDigitsOk(SubSeq(s, i + 3, close - 1))
            THEN <<FromCharCode(ParseHex(SubSeq(s, i + 3, close - 1)))>>
                 \o UnescapeFrom(s, close + 1)
            ELSE IF c \notin LineTerminators
            THEN <<c>> \o UnescapeFrom(s, i + 2)
            ELSE <<92>> \o UnescapeFrom(s, i + 1)

\* unescapeEscapedCharacters(str)
unescapeEscapedCharacters(str) == UnescapeFrom(str, 1)

\* buildRegexGroup(base, min, max): the quantifier as [lo, hi], hi = -1 for
\* no upper limit; min and max count as set when they are not 0
buildRegexGroup(base, min, max) ==
    IF min # 0
    THEN IF max # 0 THEN [base |-> base, lo |-> min, hi |-> max]
         ELSE [base |-> base, lo |-> min, hi |-> -1]
    ELSE IF max # 0 THEN [base |-> base, lo |-> max, hi |-> max]
    ELSE [base |-> base, lo |-> 0, hi |-> -1]

(***************************************************************************)
(* Regular expressions.  The model covers the expressions the node builds  *)
(* itself (character groups) and, for the regex mode, patterns made of     *)
(* literal characters and groups of literal characters.  A regular         *)
(* expression is a record: its alternatives in order, and the flags.       *)
(***************************************************************************)
\* the lengths one repetition of a character class can take at position
\* p + 1 of s, in the order the expression tries them
ClassOptions(base, s, p) ==
    IF p >= Len(s) THEN <<>>
    ELSE LET c == s[p + 1] IN
         CASE base = "(\\r\\n|\\r|\\n)" ->
                (IF c = 13 /\ p + 2 <= Len(s) /\ s[p + 2] = 10 THEN <<2>> ELSE <<>>)
                \o (IF c \in {13, 10} THEN <<1>> ELSE <<>>)
           [] base = "\\d" -> IF IsDigit(c) THEN <<1>> ELSE <<>>
           [] base = "[a-zA-Z]" ->
                IF IsLowerLetter(c) \/ IsUpperLetter(c) THEN <<1>> ELSE <<>>
           [] base = "\\s" -> IF c \in WhiteSpace THEN <<1>> ELSE <<>>
           [] OTHER -> <<>>

\* greedy repetition with backtracking: the end of the match of
\* base{lo,hi} that starts at p after count repetitions, -1 if none
RECURSIVE ClassEnd(_, _, _, _)
RECURSIVE ClassTry(_, _, _, _, _)
ClassEnd(alt, s, p, count) ==
    LET more == IF alt.hi = -1 \/ count < alt.hi
                THEN ClassTry(alt, s, p, count, ClassOptions(alt.base, s, p))
                ELSE -1
    IN IF more # -1 THEN more
       ELSE IF count >= alt.lo THEN p ELSE -1
ClassTry(alt, s, p, count, opts) ==
    IF opts = <<>> THEN -1
    ELSE LET r == ClassEnd(alt, s, p + Head(opts), count + 1)
         IN IF r # -1 THEN r ELSE ClassTry(alt, s, p, count, Tail(opts))

\* canonical form of a text under the flag i
Canonical(s, ignoreCase) == IF ignoreCase THEN ToUpperCase(s) ELSE s

\* the match of one alternative at offset p: its length (-1: no match) and
\* the texts of its groups
AltMatchAt(alt, ignoreCase, s, p) ==
    IF alt.k = "class"
    THEN LET e == ClassEnd(alt, s, p, 0)
         IN [len |-> IF e = -1 THEN -1 ELSE e - p, captures |-> <<>>]
    ELSE IF /\ p + Len(alt.lit) <= Len(s)
            /\ Canonical(SubSeq(s, p + 1, p + Len(alt.lit)), ignoreCase)
               = Canonical(alt.lit, ignoreCase)
         THEN [len |-> Len(alt.lit),
               captures |-> [g \in DOMAIN alt.groups |->
                   SubSeq(s, p + alt.groups[g][1], p + alt.groups[g][2])]]
         ELSE [len |-> -1, captures |-> <<>>]

\* the match of the expression at offset p: the first alternative that
\* matches; an expression without alternatives matches the empty text
RECURSIVE AltsMatchAt(_, _, _, _)
AltsMatchAt(alts, ignoreCase, s, p) ==
    IF alts = <<>> THEN [len |-> -1, captures |-> <<>>]
    ELSE LET m == AltMatchAt(Head(alts), ignoreCase, s, p)
         IN IF m.len # -1 THEN m ELSE AltsMatchAt(Tail(alts), ignoreCase, s, p)
RegexMatchAt(re, s, p) ==
    IF re.alts = <<>> THEN [len |-> 0, captures |-> <<>>]
    ELSE AltsMatchAt(re.alts, re.ignoreCase, s, p)

\* RegExp.prototype.exec from lastIndex: the offset of the leftmost match,
\* -1 if there is none
RECURSIVE RegexSearch(_, _, _)
RegexSearch(re, s, lastIndex) ==
    IF lastIndex > Len(s) THEN -1
    ELSE IF RegexMatchAt(re, s, lastIndex).len # -1 THEN lastIndex
    ELSE RegexSearch(re, s, lastIndex + 1)

\* RegExp.prototype[Symbol.replace]: the text from offset nextSource on,
\* with the matches found from lastIndex on replaced; after an empty match
\* the search resumes one character further
RECURSIVE RegexReplaceFrom(_, _, _, _, _)
RegexReplaceMatch(re, s, template, q, m, nextSource) ==
    SubSeq(s, nextSource + 1, q)
    \o GetSubstitution(template, SubSeq(s, q + 1, q + m.len), q, s, m.captures)
    \o (IF ~re.global THEN SubSeq(s, q + m.len + 1, Len(s))
        ELSE RegexReplaceFrom(re, s, template,
                              IF m.len = 0 THEN q + 1 ELSE q + m.len, q + m.len))
RegexReplaceFound(re, s, template, q, nextSource) ==
    IF q = -1 THEN SubSeq(s, nextSource + 1, Len(s))
    ELSE RegexReplaceMatch(re, s, template, q, RegexMatchAt(re, s, q), nextSource)
RegexReplaceFrom(re, s, template, lastIndex, nextSource) ==
    RegexReplaceFound(re, s, template, RegexSearch(re, s, lastIndex), nextSource)

\* str.replace(re, template)
RegexReplace(s, re, template) == RegexReplaceFrom(re, s, template, 0, 0)

\* the flags of a regular expression literal
RegexFlags == {103, 105, 109, 117, 115, 121}

\* a match that never finds the form /body/flags
RegexLiteralEndNever(pattern) == 0

\* the match of ^/(.*?)/([gimusy]*)$ against the configured pattern: the
\* position of the slash that ends the shortest body, 0 if the pattern has
\* not the form /body/flags
RegexLiteralEnd(pattern) ==
    LET ends == {j \in 2 .. Len(pattern) :
                    /\ pattern[1] = 47
                    /\ pattern[j] = 47
                    /\ \A k \in (j + 1) .. Len(pattern) : pattern[k] \in RegexFlags
                    /\ \A k \in 2 .. (j - 1) : pattern[k] \notin LineTerminators}
    IN IF ends = {} THEN 0 ELSE CHOOSE j \in ends : \A k \in ends : j <= k

\* the characters with a meaning in a regular expression, groups excepted
RegexSpecial == {92, 94, 36, 46, 42, 43, 63, 91, 93, 123, 125, 124}

\* the literal characters of a pattern body, without the parentheses
RECURSIVE BodyLiteral(_)
BodyLiteral(body) ==
    IF body = <<>> THEN <<>>
    ELSE IF Head(body) \in {40, 41} THEN BodyLiteral(Tail(body))
    ELSE <<Head(body)>> \o BodyLiteral(Tail(body))

\* the groups of a pattern body, as (first, last) positions in its literal
\* characters; open is the start of the group being read, 0 outside a group
RECURSIVE BodyGroups(_, _, _)
BodyGroups(body, n, open) ==
    IF body = <<>> THEN <<>>
    ELSE IF Head(body) = 40 THEN BodyGroups(Tail(body), n, n + 1)
    ELSE IF Head(body) = 41 THEN <<<<open, n>>>> \o BodyGroups(Tail(body), n, 0)
    ELSE BodyGroups(Tail(body), n + 1, open)

\* whether the parentheses of a body are balanced and not nested
RECURSIVE BodyBalanced(_, _)
BodyBalanced(body, open) ==
    IF body = <<>> THEN ~open
    ELSE IF Head(body) = 40 THEN ~open /\ BodyBalanced(Tail(body), TRUE)
    ELSE IF Head(body) = 41 THEN open /\ BodyBalanced(Tail(body), FALSE)
    ELSE BodyBalanced(Tail(body), open)

\* whether a flags text names a flag twice
DuplicateFlags(flags) ==
    \E i, j \in DOMAIN flags : i # j /\ flags[i] = flags[j]

\* whether new RegExp(body, flags) is within the patterns the model covers
RegexCovered(body, flags) ==
    /\ \A i \in DOMAIN body : body[i] \notin RegexSpecial
    /\ 121 \notin Chars(flags)

\* new RegExp(body, flags): a syntax error, or the expression
NewRegExp(body, flags) ==
    IF DuplicateFlags(flags) \/ ~BodyBalanced(body, FALSE)
    THEN [ok |-> FALSE]
    ELSE [ok |-> TRUE,
          alts |-> <<[k |-> "lit", lit |-> BodyLiteral(body),
                      groups |-> BodyGroups(body, 0, 0)]>>,
          ignoreCase |-> 105 \in Chars(flags),
          global |-> 103 \in Chars(flags)]

(***************************************************************************)
(* encodeURI, encodeURIComponent, decodeURI and decodeURIComponent.        *)
(* A result is [ok |-> TRUE, text |-> ...] or [ok |-> FALSE] (URIError).   *)
(***************************************************************************)
\* A-Z a-z 0-9 - _ . ! ~ * ' ( )
UriUnescaped ==
    (65 .. 90) \cup (97 .. 122) \cup (48 .. 57)
    \cup {45, 95, 46, 33, 126, 42, 39, 40, 41}
\* ; / ? : @ & = + $ ,  and #
UriReservedPlusHash == {59, 47, 63, 58, 64, 38, 61, 43, 36, 44, 35}

HexChar(v) == IF v < 10 THEN 48 + v ELSE 55 + v
PercentByte(b) == <<37, HexChar(b \div 16), HexChar(b % 16)>>
PercentBytes(bytes) == Flatten([i \in DOMAIN bytes |-> PercentByte(bytes[i])])

\* Encode(string, unescapedSet)
RECURSIVE UriEncode(_, _)
UriEncode(s, unescaped) ==
    IF s = <<>> THEN [ok |-> TRUE, text |-> <<>>]
    ELSE LET u == Head(s)
             pair == IsHighSurrogate(u) /\ Len(s) > 1 /\ IsLowSurrogate(s[2])
             rest == UriEncode(IF pair THEN Tail(Tail(s)) ELSE Tail(s), unescaped)
         IN IF (IsHighSurrogate(u) \/ IsLowSurrogate(u)) /\ ~pair THEN [ok |-> FALSE]
            ELSE IF ~rest.ok THEN rest
            ELSE IF u \in unescaped THEN [ok |-> TRUE, text |-> <<u>> \o rest.text]
            ELSE [ok |-> TRUE,
                  text |-> PercentBytes(Utf8Encode(IF pair THEN <<u, s[2]>> ELSE <<u>>))
                           \o rest.text]

encodeURI(s) == UriEncode(s, UriUnescaped \cup UriReservedPlusHash)
encodeURIComponent(s) == UriEncode(s, UriUnescaped)

\* whether s holds an escape %XX at position i
IsEscapeAt(s, i) ==
    i + 2 <= Len(s) /\ s[i] = 37 /\ IsHex(s[i + 1]) /\ IsHex(s[i + 2])
EscapeByte(s, i) == HexDigit(s[i + 1]) * 16 + HexDigit(s[i + 2])

\* the bytes of n consecutive escapes from position i on (all present)
EscapeBytes(s, i, n) == [k \in 1 .. n |-> EscapeByte(s, i + 3 * (k - 1))]

\* Decode(string, reservedSet)
RECURSIVE UriDecode(_, _, _)
UriPrepend(c, rest) ==
    IF rest.ok THEN [ok |-> TRUE, text |-> <<c>> \o rest.text] ELSE rest
UriDecodeBytes(s, i, reserved, b, n, whole, text, rest) ==
    IF b >= 128 /\ (n = 1 \/ ~whole \/ 65533 \in Chars(text)) THEN [ok |-> FALSE]
    ELSE IF ~rest.ok THEN rest
    ELSE IF b < 128 /\ b \in reserved
    THEN [ok |-> TRUE, text |-> SubSeq(s, i, i + 2) \o rest.text]
    ELSE [ok |-> TRUE, text |-> text \o rest.text]
UriDecodeWhole(s, i, reserved, b, n, whole) ==
    UriDecodeBytes(s, i, reserved, b, n, whole,
                   Utf8Decode(IF whole THEN EscapeBytes(s, i, n) ELSE <<>>),
                   UriDecode(s, i + 3 * n, reserved))
UriDecodeEscape(s, i, reserved, b, n) ==
    UriDecodeWhole(s, i, reserved, b, n,
                   \A k \in 1 .. n : IsEscapeAt(s, i + 3 * (k - 1)))
UriDecode(s, i, reserved) ==
    IF i > Len(s) THEN [ok |-> TRUE, text |-> <<>>]
    ELSE IF s[i] # 37 THEN UriPrepend(s[i], UriDecode(s, i + 1, reserved))
    ELSE IF ~IsEscapeAt(s, i) THEN [ok |-> FALSE]
    ELSE UriDecodeEscape(s, i, reserved, EscapeByte(s, i),
                         IF EscapeByte(s, i) < 128 THEN 1
                         ELSE 1 + Utf8Need(EscapeByte(s, i)))

decodeURI(s) == UriDecode(s, 1, UriReservedPlusHash)
decodeURIComponent(s) == UriDecode(s, 1, {})

(***************************************************************************)
(* The entities library, for the named entities of the model's texts.      *)
(***************************************************************************)
\* the named entities: character, name, whether XML knows the name, and
\* whether HTML accepts the name without the closing semicolon (legacy)
NamedEntities ==
    { [c |-> 38, name |-> <<97, 109, 112>>, xml |-> TRUE, legacy |-> TRUE],
      [c |-> 60, name |-> <<108, 116>>, xml |-> TRUE, legacy |-> TRUE],
      [c |-> 62, name |-> <<103, 116>>, xml |-> TRUE, legacy |-> TRUE],
      [c |-> 34, name |-> <<113, 117, 111, 116>>, xml |-> TRUE, legacy |-> TRUE],
      [c |-> 39, name |-> <<97, 112, 111, 115>>, xml |-> TRUE, legacy |-> FALSE],
      [c |-> 36, name |-> <<100, 111, 108, 108, 97, 114>>, xml |-> FALSE,
       legacy |-> FALSE],
      [c |-> 33, name |-> <<101, 120, 99, 108>>, xml |-> FALSE, legacy |-> FALSE],
      [c |-> 35, name |-> <<110, 117, 109>>, xml |-> FALSE, legacy |-> FALSE],
      [c |-> 37, name |-> <<112, 101, 114, 99, 110, 116>>, xml |-> FALSE,
       legacy |-> FALSE],
      [c |-> 59, name |-> <<115, 101, 109, 105>>, xml |-> FALSE, legacy |-> FALSE],
      [c |-> 160, name |-> <<110, 98, 115, 112>>, xml |-> FALSE, legacy |-> TRUE],
      [c |-> 233, name |-> <<101, 97, 99, 117, 116, 101>>, xml |-> FALSE,
       legacy |-> TRUE] }

\* the characters of the ASCII range the HTML encoder escapes and that the
\* table above does not name
HtmlEscapedUnnamed ==
    ({9, 10, 12} \cup (35 .. 44) \cup {46, 47} \cup (58 .. 64) \cup (91 .. 96)
     \cup (123 .. 125)) \ {c \in 0 .. 255 : \E e \in NamedEntities : e.c = c}

\* whether the entity functions of the model cover a text
EntitiesCovered(s) ==
    \A i \in DOMAIN s :
        /\ s[i] \notin HtmlEscapedUnnamed
        /\ ~IsHighSurrogate(s[i]) /\ ~IsLowSurrogate(s[i])

HasName(c, html) == \E e \in NamedEntities : e.c = c /\ (html \/ e.xml)
NameOf(c) == (CHOOSE e \in NamedEntities : e.c = c).name

\* lower case hexadecimal digits of a number (Number.prototype.toString(16))
RECURSIVE HexText(_)
HexText(n) ==
    LET d == n % 16
        ch == IF d < 10 THEN 48 + d ELSE 87 + d
    IN IF n < 16 THEN <<ch>> ELSE HexText(n \div 16) \o <<ch>>

NamedReference(c) == <<38>> \o NameOf(c) \o <<59>>
NumericReference(c) == <<38, 35, 120>> \o HexText(c) \o <<59>>

\* the five characters XML escapes
XmlSpecial == {34, 38, 39, 60, 62}

\* entities.encodeXML: the five characters and every non-ASCII character
encodeXML(s) ==
    Flatten([i \in DOMAIN s |->
        IF s[i] \in XmlSpecial THEN NamedReference(s[i])
        ELSE IF s[i] >= 128 THEN NumericReference(s[i])
        ELSE <<s[i]>>])

\* entities.escapeUTF8: the five characters only
escapeUTF8(s) ==
    Flatten([i \in DOMAIN s |->
        IF s[i] \in XmlSpecial THEN NamedReference(s[i]) ELSE <<s[i]>>])

\* entities.encodeHTML: every character with an HTML name, and every other
\* non-ASCII character as a numeric reference
encodeHTML(s) ==
    Flatten([i \in DOMAIN s |->
        IF HasName(s[i], TRUE) THEN NamedReference(s[i])
        ELSE IF s[i] >= 128 THEN NumericReference(s[i])
        ELSE <<s[i]>>])

\* entities.encodeNonAsciiHTML: the five characters, the dollar sign and
\* the non-ASCII characters, with HTML names
encodeNonAsciiHTML(s) ==
    Flatten([i \in DOMAIN s |->
        IF s[i] \in XmlSpecial \cup {36} \/ s[i] >= 128
        THEN (IF HasName(s[i], TRUE) THEN NamedReference(s[i])
              ELSE NumericReference(s[i]))
        ELSE <<s[i]>>])

\* decodeCodePoint: the character of a numeric reference
ReplaceCodePoint(cp) ==
    IF cp = 0 \/ (cp >= 55296 /\ cp <= 57343) \/ cp > 1114111 THEN <<65533>>
    ELSE IF cp = 128 THEN <<8364>>
    ELSE CodeUnits(cp)

\* parseInt(digits, 10)
RECURSIVE ParseDec(_)
ParseDec(d) ==
    IF d = <<>> THEN 0
    ELSE ParseDec(SubSeq(d, 1, Len(d) - 1)) * 10 + (d[Len(d)] - 48)

\* the entity that starts at the "&" at position i of s: [len, text], with
\* len = 0 when there is none.  html: the HTML names are known; strict: the
\* closing semicolon is required
EntityAt(s, i, html, strict) ==
    LET numeric == i + 1 <= Len(s) /\ s[i + 1] = 35
        hex == numeric /\ i + 2 <= Len(s) /\ s[i + 2] \in {120, 88}
        first == IF hex THEN i + 3 ELSE i + 2
        digitOk(c) == IF hex THEN IsHex(c) ELSE IsDigit(c)
        nd == CHOOSE n \in 0 .. Len(s) :
                 /\ \A k \in 0 .. (n - 1) : first + k <= Len(s) /\ digitOk(s[first + k])
                 /\ ~(first + n <= Len(s) /\ digitOk(s[first + n]))
        digits == SubSeq(s, first, first + nd - 1)
        semi == first + nd <= Len(s) /\ s[first + nd] = 59
        named == {e \in NamedEntities :
                     /\ html \/ e.xml
                     /\ StartsWithAt(s, e.name, i + 1)
                     /\ \/ i + Len(e.name) + 1 <= Len(s) /\ s[i + Len(e.name) + 1] = 59
                        \/ ~strict /\ e.legacy}
    IN IF numeric
       THEN IF nd = 0 \/ (~semi /\ strict) THEN [len |-> 0, text |-> <<>>]
            ELSE [len |-> (first - i) + nd + (IF semi THEN 1 ELSE 0),
                  text |-> ReplaceCodePoint(IF hex THEN ParseHex(digits)
                                            ELSE ParseDec(digits))]
       ELSE IF named = {} THEN [len |-> 0, text |-> <<>>]
       ELSE LET e == CHOOSE x \in named : \A y \in named : Len(x.name) >= Len(y.name)
                withSemi == i + Len(e.name) + 1 <= Len(s) /\ s[i + Len(e.name) + 1] = 59
            IN [len |-> 1 + Len(e.name) + (IF withSemi THEN 1 ELSE 0), text |-> <<e.c>>]

RECURSIVE DecodeEntities(_, _, _, _)
DecodeEntity(s, i, html, strict, e) ==
    IF e.len = 0 THEN <<38>> \o DecodeEntities(s, i + 1, html, strict)
    ELSE e.text \o DecodeEntities(s, i + e.len, html, strict)
DecodeEntities(s, i, html, strict) ==
    IF i > Len(s) THEN <<>>
    ELSE IF s[i] # 38 THEN <<s[i]>> \o DecodeEntities(s, i + 1, html, strict)
    ELSE DecodeEntity(s, i, html, strict, EntityAt(s, i, html, strict))

\* entities.decodeXML and its alias decodeXMLStrict; decodeHTML (legacy) and
\* decodeHTMLStrict
decodeXML(s) == DecodeEntities(s, 1, FALSE, TRUE)
decodeXMLStrict(s) == DecodeEntities(s, 1, FALSE, TRUE)
decodeHTML(s) == DecodeEntities(s, 1, TRUE, FALSE)
decodeHTMLStrict(s) == DecodeEntities(s, 1, TRUE, TRUE)

(***************************************************************************)
(* The manipulations.  A manipulation is a record with the field action    *)
(* and the fields its action reads.  The result of applying one is         *)
(* [ok |-> TRUE, text |-> ...] or [ok |-> FALSE, error |-> ...], the error *)
(* being "NodeOperationError" (thrown by the node with the item index) or  *)
(* the name of the exception a library call throws.                        *)
(***************************************************************************)
Ok(t) == [ok |-> TRUE, text |-> t]
Throw(e) == [ok |-> FALSE, error |-> e]
NodeOperationError == "NodeOperationError"

\* value == null
IsNullish(v) == v.t \in {"null", "undefined"}
\* a numeric parameter as a number (null counts as 0)
NumberOf(v) == IF v.t = "number" THEN v.n ELSE 0
\* the result of a call that returns a text or throws a URIError
FromUri(r) == IF r.ok THEN Ok(r.text) ELSE Throw("URIError")

\* case 'concat'
ApplyConcat(text, m) == Ok(m.before \o text \o m.after)

\* case 'decodeEncode': the options object of the decode call carries addBOM
\* and the one of the encode call carries stripBOM
ApplyDecodeEncode(text, m) ==
    IF m.encodeWith # m.decodeWith
    THEN IF ~EncodingExists(m.decodeWith) \/ ~EncodingExists(m.encodeWith)
         THEN Throw("Error")
         ELSE Ok(Utf8Decode(
                 IconvEncode(IconvDecode(Utf8Encode(text), m.decodeWith,
                                         [addBOM |-> m.addBOM]),
                             m.encodeWith, [stripBOM |-> m.stripBOM])))
    ELSE Ok(text)

\* the first switch of case 'decodeEncodeEntities'
DecodeStep(text, m) ==
    CASE m.decodeWithEntities = "url" -> FromUri(decodeURI(text))
      [] m.decodeWithEntities = "urlComponent" -> FromUri(decodeURIComponent(text))
      [] m.decodeWithEntities = "xml" ->
            (CASE m.entitiesDecodeMode = "legacy" -> Ok(decodeXML(text))
               [] m.entitiesDecodeMode = "strict" -> Ok(decodeXMLStrict(text))
               [] OTHER -> Throw(NodeOperationError))
      [] m.decodeWithEntities = "html" ->
            (CASE m.entitiesDecodeMode = "legacy" -> Ok(decodeHTML(text))
               [] m.entitiesDecodeMode = "strict" -> Ok(decodeHTMLStrict(text))
               [] OTHER -> Throw(NodeOperationError))
      [] m.decodeWithEntities = "nothing" -> Ok(text)
      [] OTHER -> Throw(NodeOperationError)

\* the second switch of case 'decodeEncodeEntities'
EncodeStep(text, m) ==
    CASE m.encodeWithEntities = "url" -> FromUri(encodeURI(text))
      [] m.encodeWithEntities = "urlComponent" -> FromUri(encodeURIComponent(text))
      [] m.encodeWithEntities = "xml" ->
            (CASE m.entitiesEncodeMode = "extensive" -> Ok(encodeXML(text))
               [] m.entitiesEncodeMode = "utf8" -> Ok(escapeUTF8(text))
               [] m.entitiesEncodeMode = "nonAscii" -> Ok(encodeXML(text))
               [] OTHER -> Throw(NodeOperationError))
      [] m.encodeWithEntities = "html" ->
            (CASE m.entitiesEncodeMode = "extensive" -> Ok(encodeHTML(text))
               [] m.entitiesEncodeMode = "utf8" -> Ok(escapeUTF8(text))
               [] m.entitiesEncodeMode = "nonAscii" -> Ok(encodeNonAsciiHTML(text))
               [] OTHER -> Throw(NodeOperationError))
      [] m.encodeWithEntities = "nothing" -> Ok(text)
      [] OTHER -> Throw(NodeOperationError)

\* case 'decodeEncodeEntities' without the comparison of the two codings
ApplyDecodeEncodeEntitiesUnguarded(text, m) ==
    IF DecodeStep(text, m).ok THEN EncodeStep(DecodeStep(text, m).text, m)
    ELSE DecodeStep(text, m)

\* case 'decodeEncodeEntities' with the encode step before the decode step
ApplyEncodeDecodeEntities(text, m) ==
    IF m.encodeWithEntities = m.decodeWithEntities THEN Ok(text)
    ELSE IF EncodeStep(text, m).ok THEN DecodeStep(EncodeStep(text, m).text, m)
    ELSE EncodeStep(text, m)

\* case 'decodeEncodeEntities'
EncodeDecoded(d, m) == IF d.ok THEN EncodeStep(d.text, m) ELSE d
ApplyDecodeEncodeEntities(text, m) ==
    IF m.encodeWithEntities # m.decodeWithEntities
    THEN EncodeDecoded(DecodeStep(text, m), m)
    ELSE Ok(text)

\* case 'letterCase'
ApplyLetterCase(text, m) ==
    CASE m.caseType = "camelCase" -> Ok(CamelCase(text))
      [] m.caseType = "capitalize" -> Ok(Capitalize(text))
      [] m.caseType = "titlecase" -> Ok(TitleCase(text))
      [] m.caseType = "kebabCase" -> Ok(KebabCase(text))
      [] m.caseType = "snakeCase" -> Ok(SnakeCase(text))
      [] m.caseType = "startCase" -> Ok(StartCase(text))
      [] m.caseType = "upperCase" -> Ok(ToUpperCase(text))
      [] m.caseType = "lowerCase" -> Ok(ToLowerCase(text))
      [] m.caseType = "localeUpperCase" -> Ok(ToLocaleUpperCase(text, m.language))
      [] m.caseType = "localeLowerCase" -> Ok(ToLocaleLowerCase(text, m.language))
      [] OTHER -> Throw(NodeOperationError)

\* case 'normalize': the switch has no default branch
ApplyNormalize(text, m) ==
    CASE m.normalizeForm = "nfc" -> Ok(Normalize(text, "NFC"))
      [] m.normalizeForm = "nfd" -> Ok(Normalize(text, "NFD"))
      [] m.normalizeForm = "nfkc" -> Ok(Normalize(text, "NFKC"))
      [] m.normalizeForm = "nfkd" -> Ok(Normalize(text, "NFKD"))
      [] OTHER -> Ok(text)

\* manipulation.extended ? unescapeEscapedCharacters(value) : value
Extended(m, value) == IF m.extended THEN unescapeEscapedCharacters(value) ELSE value

\* case 'regex' of the replace modes
ApplyReplaceRegex(text, m) ==
    LET e == RegexLiteralEnd(m.regex)
        re == IF e = 0 THEN NewRegExp(m.regex, <<>>)
              ELSE NewRegExp(SubSeq(m.regex, 2, e - 1),
                             SubSeq(m.regex, e + 1, Len(m.regex)))
    IN IF re.ok THEN Ok(RegexReplace(text, re, Extended(m, m.pattern)))
       ELSE Throw("SyntaxError")

\* stringStripHtml.stripHtml(text, ...).result of a text that holds no tag,
\* no entity and no white space at its ends
StripHtml(text, value, onlyRecognisedHTML) == text

\* the groups of case 'characterGroups', in the order they are pushed
CharacterGroups(m) ==
    (IF m.newline
     THEN <<buildRegexGroup("(\\r\\n|\\r|\\n)", m.newlineMin, m.newlineMax)>>
     ELSE <<>>)
    \o (IF m.number THEN <<buildRegexGroup("\\d", m.numberMin, m.numberMax)>>
        ELSE <<>>)
    \o (IF m.alpha THEN <<buildRegexGroup("[a-zA-Z]", m.alphaMin, m.alphaMax)>>
        ELSE <<>>)
    \o (IF m.whitespace
        THEN <<buildRegexGroup("\\s", m.whitespaceMin, m.whitespaceMax)>>
        ELSE <<>>)

\* new RegExp(groups.join('|'), 'g'): a quantifier {min,max} with
\* min > max is a syntax error
CharacterGroupsRegExp(groups) ==
    IF \E i \in DOMAIN groups : groups[i].hi # -1 /\ groups[i].lo > groups[i].hi
    THEN [ok |-> FALSE]
    ELSE [ok |-> TRUE,
          alts |-> [i \in DOMAIN groups |-> [k |-> "class"] @@ groups[i]],
          ignoreCase |-> FALSE, global |-> TRUE]

\* case 'predefinedRule' of the replace modes
ApplyPredefinedRule(text, m) ==
    CASE m.predefinedRule = "tags" ->
            Ok(StripHtml(text, Extended(m, m.value), m.onlyRecognisedHTML))
      [] m.predefinedRule = "characterGroups" ->
            (LET re == CharacterGroupsRegExp(CharacterGroups(m))
             IN IF re.ok THEN Ok(RegexReplace(text, re, Extended(m, m.value)))
                ELSE Throw("SyntaxError"))
      [] OTHER -> Throw(NodeOperationError)

\* case 'replace'
ApplyReplace(text, m) ==
    CASE m.replaceMode = "substring" ->
            (IF m.replaceAll
             THEN Ok(replaceAll(text, m.substring, Extended(m, m.value)))
             ELSE Ok(ReplaceFirst(text, m.substring, Extended(m, m.value))))
      [] m.replaceMode = "extendedSubstring" ->
            (IF m.replaceAll
             THEN Ok(replaceAll(text, unescapeEscapedCharacters(m.substring),
                                Extended(m, m.value)))
             ELSE Ok(ReplaceFirst(text, unescapeEscapedCharacters(m.substring),
                                  Extended(m, m.value))))
      [] m.replaceMode = "regex" -> ApplyReplaceRegex(text, m)
      [] m.replaceMode = "predefinedRule" -> ApplyPredefinedRule(text, m)
      [] OTHER -> Throw(NodeOperationError)

\* case 'trim'
ApplyTrim(text, m) ==
    CASE m.trim = "trimBoth" ->
            Ok(IF m.trimStringUnit THEN charsTrim(text, m.trimString)
               ELSE LodashTrim(text, m.trimString))
      [] m.trim = "trimStart" ->
            Ok(IF m.trimStringUnit THEN charsTrimStart(text, m.trimString)
               ELSE LodashTrimStart(text, m.trimString))
      [] m.trim = "trimEnd" ->
            Ok(IF m.trimStringUnit THEN charsTrimEnd(text, m.trimString)
               ELSE LodashTrimEnd(text, m.trimString))
      [] OTHER -> Throw(NodeOperationError)

\* case 'pad' without the check of the target length
ApplyPadUnchecked(text, m) ==
    CASE m.pad = "padStart" ->
            Ok(PadStart(text, NumberOf(m.targetLength), m.padString))
      [] m.pad = "padEnd" ->
            Ok(PadEnd(text, NumberOf(m.targetLength), m.padString))
      [] OTHER -> Throw(NodeOperationError)

\* case 'pad'
ApplyPad(text, m) ==
    IF IsNullish(m.targetLength) \/ NumberOf(m.targetLength) < 0
    THEN Throw(NodeOperationError)
    ELSE CASE m.pad = "padStart" ->
                 Ok(PadStart(text, NumberOf(m.targetLength), m.padString))
           [] m.pad = "padEnd" ->
                 Ok(PadEnd(text, NumberOf(m.targetLength), m.padString))
           [] OTHER -> Throw(NodeOperationError)

\* case 'substring'
ApplySubstring(text, m) ==
    CASE m.end = "complete" ->
            Ok(Substring(text, NumberOf(m.startPosition), Len(text)))
      [] m.end = "position" ->
            Ok(Substring(text, NumberOf(m.startPosition), NumberOf(m.endPosition)))
      [] m.end = "length" ->
            (IF IsNullish(m.endLength) \/ NumberOf(m.endLength) < 0
             THEN Throw(NodeOperationError)
             ELSE IF NumberOf(m.startPosition) < 0
             THEN Ok(Substring(text, NumberOf(m.startPosition),
                               Len(text) + NumberOf(m.startPosition)
                               + NumberOf(m.endLength)))
             ELSE Ok(Substring(text, NumberOf(m.startPosition),
                               NumberOf(m.startPosition) + NumberOf(m.endLength))))
      [] OTHER -> Throw(NodeOperationError)

\* case 'repeat'
ApplyRepeat(text, m) ==
    IF IsNullish(m.times) \/ NumberOf(m.times) < 0
    THEN Throw(NodeOperationError)
    ELSE Ok(Repeat(text, NumberOf(m.times)))

\* switch (manipulation.action): one manipulation applied to the text
ApplyManipulation(text, m) ==
    CASE m.action = "concat" -> ApplyConcat(text, m)
      [] m.action = "decodeEncode" -> ApplyDecodeEncode(text, m)
      [] m.action = "decodeEncodeEntities" -> ApplyDecodeEncodeEntities(text, m)
      [] m.action = "letterCase" -> ApplyLetterCase(text, m)
      [] m.action = "normalize" -> ApplyNormalize(text, m)
      [] m.action = "replace" -> ApplyReplace(text, m)
      [] m.action = "trim" -> ApplyTrim(text, m)
      [] m.action = "pad" -> ApplyPad(text, m)
      [] m.action = "substring" -> ApplySubstring(text, m)
      [] m.action = "repeat" -> ApplyRepeat(text, m)
      [] OTHER -> Throw(NodeOperationError)

(***************************************************************************)
(* The inputs of the model: items, data sources and manipulations.         *)
(***************************************************************************)
\* the sequences over S of length at most n
SeqsUpTo(S, n) == UNION {[1 .. k -> S] : k \in 0 .. n}

\* "  Hello  ", "ab" and "e-acute" as texts
HelloText == <<32, 32, 72, 101, 108, 108, 111, 32, 32>>
AbText == <<97, 98>>
EAcuteText == <<233>>

\* the input items (INodeExecutionData): json and binary
ItemHello == [json |-> JObj([data |-> JStr(HelloText)]), binary |-> Undefined]
ItemMixed ==
    [json |-> JObj([data |-> JNum(7), n |-> JObj([x |-> JNull])]),
     binary |-> JObj([f |-> PrepareBinaryData(Utf8Encode(BOMChar \o AbText),
                                              "f.txt", "text/plain")])]

\* the key paths of the configuration
KeyData == <<"data">>
KeyOut == <<"out">>
KeyN == <<"n">>
KeyNested == <<"n", ".", "x">>

\* the read parts of a data source
FromText(t) == [readOperation |-> "fromText", text |-> t]
FromJSON(sourceKey, getManipulatedData, skipNonString) ==
    [readOperation |-> "fromJSON", sourceKey |-> sourceKey,
     getManipulatedData |-> getManipulatedData, skipNonString |-> skipNonString]
FromFile(binaryPropertyName, getManipulatedData, fileStripBOM) ==
    [readOperation |-> "fromFile", binaryPropertyName |-> binaryPropertyName,
     getManipulatedData |-> getManipulatedData, fileDecodeWith |-> "utf8",
     fileStripBOM |-> fileStripBOM]
BogusRead == [readOperation |-> "bogus"]

\* the write parts of a data source
ToJSON(destinationKey) ==
    [writeOperation |-> "toJSON", destinationKey |-> destinationKey]
ToFile(destinationBinaryPropertyName, fileEncodeWith, fileAddBOM) ==
    [writeOperation |-> "toFile",
     destinationBinaryPropertyName |-> destinationBinaryPropertyName,
     fileEncodeWith |-> fileEncodeWith, fileAddBOM |-> fileAddBOM,
     fileName |-> "out.txt", mimeType |-> "text/plain"]
BogusWrite == [writeOperation |-> "bogus"]

\* the manipulations of the text groups
TrimSpaces ==
    [action |-> "trim", trim |-> "trimBoth", trimString |-> <<32>>,
     trimStringUnit |-> TRUE]
UpperCase == [action |-> "letterCase", caseType |-> "upperCase"]
ConcatBrackets == [action |-> "concat", before |-> <<60>>, after |-> <<62>>]
RepeatNegative == [action |-> "repeat", times |-> JNum(-1)]
BogusAction == [action |-> "bogus"]
PadNegative ==
    [action |-> "pad", pad |-> "padStart", targetLength |-> JNum(-1),
     padString |-> <<42>>]
SubstringNegativeLength ==
    [action |-> "substring", end |-> "length", startPosition |-> JNum(0),
     endPosition |-> JNum(1), endLength |-> JNum(-1)]
RepeatMissing == [action |-> "repeat", times |-> JNull]

\* The configurations an execution draws from.  Each universe is one family
\* of node parameters: the items of the input, the data sources and the
\* manipulations a text group may hold.
JsonUniverse ==
    [items |-> {ItemHello, ItemMixed},
     dataSources |->
        { FromText(<<>>) @@ ToJSON(KeyData),
          FromText(EAcuteText) @@ ToJSON(KeyNested),
          FromJSON(KeyData, TRUE, FALSE) @@ ToJSON(KeyOut),
          FromJSON(KeyData, FALSE, FALSE) @@ ToJSON(KeyOut),
          FromJSON(KeyData, TRUE, TRUE) @@ ToJSON(KeyOut),
          FromJSON(KeyData, FALSE, TRUE) @@ ToJSON(KeyData),
          FromJSON(KeyNested, TRUE, FALSE) @@ ToJSON(KeyOut),
          FromJSON(KeyNested, FALSE, TRUE) @@ ToJSON(KeyData),
          FromJSON(KeyN, FALSE, FALSE) @@ ToJSON(KeyOut),
          FromJSON(KeyOut, TRUE, FALSE) @@ ToJSON(KeyNested) },
     manipulations |-> {UpperCase}]
FileUniverse ==
    [items |-> {ItemHello, ItemMixed},
     dataSources |->
        { FromText(EAcuteText) @@ ToFile("f", "utf8", TRUE),
          FromText(EAcuteText) @@ ToFile("f", "iso88591", FALSE),
          FromFile("f", TRUE, TRUE) @@ ToJSON(KeyOut),
          FromFile("f", TRUE, FALSE) @@ ToJSON(KeyOut),
          FromFile("f", FALSE, TRUE) @@ ToJSON(KeyOut),
          FromFile("g", TRUE, TRUE) @@ ToJSON(KeyOut),
          FromFile("g", FALSE, TRUE) @@ ToJSON(KeyOut),
          FromFile("f", TRUE, TRUE) @@ ToFile("g", "utf8", FALSE),
          FromFile("f", FALSE, FALSE) @@ ToFile("f", "utf8", FALSE),
          FromJSON(KeyData, FALSE, TRUE) @@ ToFile("g", "utf8", FALSE) },
     manipulations |-> {UpperCase}]
FoldUniverse ==
    [items |-> {ItemHello, ItemMixed},
     dataSources |->
        { FromJSON(KeyData, FALSE, TRUE) @@ ToJSON(KeyOut),
          FromText(AbText) @@ ToJSON(KeyData) },
     manipulations |-> {TrimSpaces, UpperCase, ConcatBrackets}]
ErrorUniverse ==
    [items |-> {ItemHello, ItemMixed},
     dataSources |->
        { FromJSON(KeyData, FALSE, FALSE) @@ ToJSON(KeyOut),
          BogusRead @@ ToJSON(KeyOut),
          FromText(AbText) @@ BogusWrite },
     manipulations |-> {UpperCase, RepeatNegative, BogusAction}]
ParameterUniverse ==
    [items |-> {ItemHello, ItemMixed},
     dataSources |->
        { FromJSON(KeyData, FALSE, FALSE) @@ ToJSON(KeyOut),
          FromText(AbText) @@ ToJSON(KeyData) },
     manipulations |->
        {UpperCase, PadNegative, SubstringNegativeLength, RepeatMissing}]
Universes ==
    {JsonUniverse, FileUniverse, FoldUniverse, ErrorUniverse, ParameterUniverse}

(***************************************************************************)
(* The text groups an item is processed with.                              *)
(***************************************************************************)
\* the text groups over a universe that hold at most b data sources; a text
\* group without data sources is drawn without manipulations, which no loop
\* would reach
GroupsUpTo(u, b) ==
    {[dataSources |-> <<>>, manipulations |-> <<>>]} \cup
    [dataSources : SeqsUpTo(u.dataSources, b) \ {<<>>},
     manipulations : SeqsUpTo(u.manipulations, MaxManipulations)]

\* the values of the parameter textsWithManipulations.textsWithManipulationsValues:
\* at most n text groups that hold at most b data sources together
RECURSIVE GroupLists(_, _, _)
GroupLists(u, n, b) ==
    IF n = 0 THEN {<<>>}
    ELSE {<<>>} \cup
         UNION { {<<g>> \o rest :
                    rest \in GroupLists(u, n - 1, b - Len(g.dataSources))} :
                 g \in GroupsUpTo(u, b) }

\* the number of data sources of a list of text groups
RECURSIVE CountSources(_)
CountSources(gs) ==
    IF gs = <<>> THEN 0
    ELSE Len(Head(gs).dataSources) + CountSources(Tail(gs))

(***************************************************************************)
(* The state of one execution of the node.                                 *)
(***************************************************************************)
VARIABLES
    universe,         \* the family of configurations of this execution
    items,            \* this.getInputData()
    itemIndex,        \* the index of the item being processed (from 0)
    keepOnlySet,      \* the parameter keepOnlySet of the current item
    groups,           \* the text groups of the current item
    newItemJson,      \* the json of the output item being built
    newItemBinary,    \* the binary of the output item being built
    groupIndex,       \* the position of the current text group
    sourceIndex,      \* the position of the current data source in the group
    manipulationIndex,\* the position of the next manipulation to apply
    text,             \* the variable text of execute
    pending,          \* the binary data an awaited prepareBinaryData returns
    returnData,       \* the output items pushed so far
    pc,               \* the position of execute
    error,            \* the exception that ended execute
    delivered,        \* what the caller received from execute
    sourcesUsed,      \* the number of data sources configured in this execution
    resolved,         \* history: the text the current data source resolved to
    writtenJson,      \* history: key path -> text committed for this item
    writtenBinary     \* history: property name -> buffer committed for this item

vars ==
    <<universe, items, itemIndex, keepOnlySet, groups, newItemJson,
      newItemBinary, groupIndex, sourceIndex, manipulationIndex, text, pending,
      returnData, pc, error, delivered, sourcesUsed, resolved, writtenJson,
      writtenBinary>>

\* the value of a variable that was not assigned yet
Unassigned == <<-1>>
NoError == [name |-> "none", itemIndex |-> -1]
NoPending == [data |-> <<>>, fileName |-> "", mimeType |-> ""]

\* the current item, text group and data source
item == items[itemIndex + 1]
group == groups[groupIndex]
dataSource == group.dataSources[sourceIndex]

Init ==
    /\ universe \in Universes
    /\ items \in SeqsUpTo(universe.items, MaxItems)
    /\ itemIndex = 0
    /\ keepOnlySet = FALSE
    /\ groups = <<>>
    /\ newItemJson = EmptyObject
    /\ newItemBinary = EmptyObject
    /\ groupIndex = 0
    /\ sourceIndex = 1
    /\ manipulationIndex = 1
    /\ text = Unassigned
    /\ pending = NoPending
    /\ returnData = <<>>
    /\ pc = "items"
    /\ error = NoError
    /\ delivered = <<>>
    /\ sourcesUsed = 0
    /\ resolved = Unassigned
    /\ writtenJson = <<>>
    /\ writtenBinary = <<>>

(***************************************************************************)
(* Reading a data source and writing its text.                             *)
(***************************************************************************)
\* the outcomes of the switch on readOperation
ReadText(t) == [kind |-> "text", text |-> t]
ReadContinue == [kind |-> "continue"]
ReadThrow(e) == [kind |-> "throw", error |-> e]

\* iconv.decode(Buffer.from(binaryData.data, BINARY_ENCODING), fileDecodeWith,
\*              {stripBOM: fileStripBOM})
DecodeFile(ds, binaryData) ==
    IF ~EncodingExists(ds.fileDecodeWith) THEN ReadThrow("Error")
    ELSE ReadText(IconvDecode(Base64Decode(binaryData.data), ds.fileDecodeWith,
                              [stripBOM |-> ds.fileStripBOM]))

\* a fromFile that never looks at the output item
ReadFromFileRaw(ds, it, binary) ==
    IF it.binary = Undefined \/ Prop(it.binary, ds.binaryPropertyName) = Undefined
    THEN ReadContinue
    ELSE DecodeFile(ds, Prop(it.binary, ds.binaryPropertyName))

\* a fromFile that treats a missing binary property as an error
ReadFromFileStrict(ds, it, binary) ==
    LET manipulated == Prop(binary, ds.binaryPropertyName)
        raw == Prop(it.binary, ds.binaryPropertyName)
    IN IF ds.getManipulatedData /\ manipulated # Undefined
       THEN DecodeFile(ds, manipulated)
       ELSE IF it.binary = Undefined \/ raw = Undefined
       THEN ReadThrow(NodeOperationError)
       ELSE DecodeFile(ds, raw)

\* case 'fromFile'
ReadFromFile(ds, it, binary) ==
    LET manipulated == Prop(binary, ds.binaryPropertyName)
        raw == Prop(it.binary, ds.binaryPropertyName)
    IN IF ds.getManipulatedData
       THEN IF manipulated = Undefined
            THEN IF it.binary = Undefined \/ raw = Undefined THEN ReadContinue
                 ELSE DecodeFile(ds, raw)
            ELSE DecodeFile(ds, manipulated)
       ELSE IF it.binary = Undefined \/ raw = Undefined THEN ReadContinue
       ELSE DecodeFile(ds, raw)

\* a fromJSON value that comes from the output item whatever the flag says
JsonValueOutputFirst(ds, it, json) ==
    IF Truthy(Get(json, ds.sourceKey))
    THEN Get(json, ds.sourceKey)
    ELSE Get(it.json, ds.sourceKey)

\* (getManipulatedData && get(newItemJson, sourceKey)) || get(item.json, sourceKey)
JsonValue(ds, it, json) ==
    IF ds.getManipulatedData /\ Truthy(Get(json, ds.sourceKey))
    THEN Get(json, ds.sourceKey)
    ELSE Get(it.json, ds.sourceKey)

\* a fromJSON that converts with String(value): null becomes "null" and
\* undefined becomes "undefined"
ReadFromJSONString(ds, it, json) ==
    LET value == JsonValue(ds, it, json)
    IN IF value.t = "string" THEN ReadText(value.s)
       ELSE IF ds.skipNonString THEN ReadContinue
       ELSE ReadText(CASE value.t = "null" -> <<110, 117, 108, 108>>
                       [] value.t = "undefined" ->
                            <<117, 110, 100, 101, 102, 105, 110, 101, 100>>
                       [] OTHER -> ToStringJS(value))

\* case 'fromJSON'
ReadFromJSON(ds, it, json) ==
    LET value == JsonValue(ds, it, json)
    IN IF value.t = "string" THEN ReadText(value.s)
       ELSE IF ds.skipNonString THEN ReadContinue
       ELSE ReadText(IF IsNullish(value) THEN <<>> ELSE ToStringJS(value))

\* switch (dataSource.readOperation)
ReadOperation(ds, it, json, binary) ==
    CASE ds.readOperation = "fromFile" -> ReadFromFile(ds, it, binary)
      [] ds.readOperation = "fromJSON" -> ReadFromJSON(ds, it, json)
      [] ds.readOperation = "fromText" -> ReadText(ds.text)
      [] OTHER -> ReadThrow(NodeOperationError)

\* iconv.encode(text, fileEncodeWith, {addBOM: fileAddBOM})
EncodeFile(ds, t) == IconvEncode(t, ds.fileEncodeWith, [addBOM |-> ds.fileAddBOM])

\* a function with one more (or one replaced) entry
Put(f, k, v) == [x \in (DOMAIN f) \cup {k} |-> IF x = k THEN v ELSE f[x]]

\* a NodeOperationError carries the index of the item; an exception of a
\* library call carries none
ErrorOf(name, index) ==
    [name |-> name, itemIndex |-> IF name = NodeOperationError THEN index ELSE -1]

\* an output json that always starts as a copy of the item
SeedJsonAlways(k, it) == it.json

\* an output json declared outside the loop over the items: with keepOnlySet
\* it is still the object pushed for the item before
SeedJsonHoisted(k, it) ==
    IF ~k THEN it.json
    ELSE IF returnData = <<>> THEN EmptyObject
    ELSE returnData[Len(returnData)].json

\* newItemJson at the head of the loop: {} or deepCopy(item.json)
SeedJson(k, it) == IF ~k THEN it.json ELSE EmptyObject

\* newItemBinary at the head of the loop: {} or Object.assign({}, item.binary)
SeedBinary(k, it) ==
    IF ~k /\ it.binary # Undefined THEN JObj(it.binary.o) ELSE EmptyObject

\* key path p is the start of key path q
IsPrefix(p, q) == Len(p) <= Len(q) /\ SubSeq(q, 1, Len(p)) = p
\* the key paths of the containers of a key path
Containers(p) == {SubSeq(p, 1, n) : n \in {k \in 1 .. (Len(p) - 1) : p[k + 1] = "."}}

\* the objects inside an output json made with {...item.json}: they are
\* the objects inside the json of the item
SharedWithItemSpread(k, it) ==
    IF k THEN {} ELSE {<<j>> : j \in {i \in DOMAIN it.json.o : IsObject(it.json.o[i])}}

\* the key paths of the objects of newItemJson that are objects of the item
\* as well: newItemJson is {} or deepCopy(item.json), which copies the
\* objects inside the json too
SharedWithItem(k, it) == {}

\* the item after set(newItemJson, key, t): the step through the containers
\* of the key path writes into an object of the item when newItemJson holds
\* that object and no write has replaced it
ItemAfterSet(it, shared, written, key, t) ==
    IF \E q \in shared \cap Containers(key) :
          \A p \in DOMAIN written : ~IsPrefix(p, q)
    THEN [it EXCEPT !.json = Set(@, key, JStr(t))]
    ELSE it

\* newItemBinary is the binary object of the item: it never is, it is
\* declared as a new object {} that Object.assign fills
BinaryIsOfItem(k, it) == FALSE

\* the item after newItemBinary[key] = binaryData
ItemAfterStore(it, same, key, binaryData) ==
    IF same THEN [it EXCEPT !.binary = WithProp(@, key, binaryData)] ELSE it
(***************************************************************************)
(* The steps of execute.                                                   *)
(***************************************************************************)
\* the head of the loop over the items: the parameters of the item are read
\* and the output item starts empty or as a copy of the item
StartItem ==
    /\ pc = "items"
    /\ itemIndex < Len(items)
    /\ \E k \in BOOLEAN :
        /\ keepOnlySet' = k
        /\ newItemBinary' = SeedBinary(k, item)
        /\ newItemJson' = SeedJson(k, item)
    /\ \E gs \in GroupLists(universe, MaxGroups, MaxSources - sourcesUsed) :
        /\ groups' = gs
        /\ sourcesUsed' = sourcesUsed + CountSources(gs)
    /\ groupIndex' = 0
    /\ writtenJson' = <<>>
    /\ writtenBinary' = <<>>
    /\ pc' = "groups"
    /\ UNCHANGED <<universe, items, itemIndex, sourceIndex, manipulationIndex,
                   text, pending, returnData, error, delivered, resolved>>

\* the loop over the text groups reaches the next group
StartGroup ==
    /\ pc = "groups"
    /\ groupIndex < Len(groups)
    /\ groupIndex' = groupIndex + 1
    /\ sourceIndex' = 1
    /\ pc' = "read"
    /\ UNCHANGED <<universe, items, itemIndex, keepOnlySet, groups, newItemJson,
                   newItemBinary, manipulationIndex, text, pending, returnData,
                   error, delivered, sourcesUsed, resolved, writtenJson,
                   writtenBinary>>

\* a switch on readOperation that goes on to the manipulations with the text
\* the variable holds
ReadSourceKeepsText ==
    /\ pc = "read"
    /\ sourceIndex <= Len(group.dataSources)
    /\ \E r \in {ReadOperation(dataSource, item, newItemJson, newItemBinary)} :
          /\ r.kind = "text"
          /\ resolved' = r.text
    /\ manipulationIndex' = 1
    /\ pc' = "manipulate"
    /\ UNCHANGED <<universe, items, itemIndex, keepOnlySet, groups, newItemJson,
                   newItemBinary, groupIndex, sourceIndex, text, pending,
                   returnData, error, delivered, sourcesUsed, writtenJson,
                   writtenBinary>>

\* the switch on readOperation sets the text
ReadSource ==
    /\ pc = "read"
    /\ sourceIndex <= Len(group.dataSources)
    /\ \E r \in {ReadOperation(dataSource, item, newItemJson, newItemBinary)} :
          /\ r.kind = "text"
          /\ text' = r.text
          /\ resolved' = r.text
    /\ manipulationIndex' = 1
    /\ pc' = "manipulate"
    /\ UNCHANGED <<universe, items, itemIndex, keepOnlySet, groups, newItemJson,
                   newItemBinary, groupIndex, sourceIndex, pending, returnData,
                   error, delivered, sourcesUsed, writtenJson, writtenBinary>>

\* the switch on readOperation continues with the next data source
SkipSource ==
    /\ pc = "read"
    /\ sourceIndex <= Len(group.dataSources)
    /\ ReadOperation(dataSource, item, newItemJson, newItemBinary).kind = "continue"
    /\ sourceIndex' = sourceIndex + 1
    /\ UNCHANGED <<universe, items, itemIndex, keepOnlySet, groups, newItemJson,
                   newItemBinary, groupIndex, manipulationIndex, text, pending,
                   returnData, pc, error, delivered, sourcesUsed, resolved,
                   writtenJson, writtenBinary>>

\* the switch on readOperation throws
ReadThrows ==
    /\ pc = "read"
    /\ sourceIndex <= Len(group.dataSources)
    /\ \E r \in {ReadOperation(dataSource, item, newItemJson, newItemBinary)} :
          /\ r.kind = "throw"
          /\ error' = ErrorOf(r.error, itemIndex)
    /\ pc' = "threw"
    /\ UNCHANGED <<universe, items, itemIndex, keepOnlySet, groups, newItemJson,
                   newItemBinary, groupIndex, sourceIndex, manipulationIndex,
                   text, pending, returnData, delivered, sourcesUsed, resolved,
                   writtenJson, writtenBinary>>

\* a loop over the manipulations that runs from the last one to the first
ManipulateBackwards ==
    /\ pc = "manipulate"
    /\ manipulationIndex <= Len(group.manipulations)
    /\ \E r \in {ApplyManipulation(text,
                  group.manipulations[Len(group.manipulations) + 1
                                      - manipulationIndex])} :
          /\ r.ok
          /\ text' = r.text
    /\ manipulationIndex' = manipulationIndex + 1
    /\ UNCHANGED <<universe, items, itemIndex, keepOnlySet, groups, newItemJson,
                   newItemBinary, groupIndex, sourceIndex, pending, returnData,
                   pc, error, delivered, sourcesUsed, resolved, writtenJson,
                   writtenBinary>>

\* one turn of the loop over the manipulations
Manipulate ==
    /\ pc = "manipulate"
    /\ manipulationIndex <= Len(group.manipulations)
    /\ \E r \in {ApplyManipulation(text, group.manipulations[manipulationIndex])} :
          /\ r.ok
          /\ text' = r.text
    /\ manipulationIndex' = manipulationIndex + 1
    /\ UNCHANGED <<universe, items, itemIndex, keepOnlySet, groups, newItemJson,
                   newItemBinary, groupIndex, sourceIndex, pending, returnData,
                   pc, error, delivered, sourcesUsed, resolved, writtenJson,
                   writtenBinary>>

\* a manipulation throws
ManipulateThrows ==
    /\ pc = "manipulate"
    /\ manipulationIndex <= Len(group.manipulations)
    /\ \E r \in {ApplyManipulation(text, group.manipulations[manipulationIndex])} :
          /\ ~r.ok
          /\ error' = ErrorOf(r.error, itemIndex)
    /\ pc' = "threw"
    /\ UNCHANGED <<universe, items, itemIndex, keepOnlySet, groups, newItemJson,
                   newItemBinary, groupIndex, sourceIndex, manipulationIndex,
                   text, pending, returnData, delivered, sourcesUsed, resolved,
                   writtenJson, writtenBinary>>

\* a toJSON that sets the text in an empty object
WriteToJSONFresh ==
    /\ pc = "manipulate"
    /\ manipulationIndex > Len(group.manipulations)
    /\ dataSource.writeOperation = "toJSON"
    /\ newItemJson' = Set(EmptyObject, dataSource.destinationKey, JStr(text))
    /\ writtenJson' = Put(writtenJson, dataSource.destinationKey, text)
    /\ sourceIndex' = sourceIndex + 1
    /\ pc' = "read"
    /\ UNCHANGED <<universe, items, itemIndex, keepOnlySet, groups,
                   newItemBinary, groupIndex, manipulationIndex, text, pending,
                   returnData, error, delivered, sourcesUsed, resolved,
                   writtenBinary>>

\* case 'toJSON': set(newItemJson, destinationKey, text)
WriteToJSON ==
    /\ pc = "manipulate"
    /\ manipulationIndex > Len(group.manipulations)
    /\ dataSource.writeOperation = "toJSON"
    /\ newItemJson' = Set(newItemJson, dataSource.destinationKey, JStr(text))
    /\ items' = [items EXCEPT ![itemIndex + 1] =
                    ItemAfterSet(@, SharedWithItem(keepOnlySet, @), writtenJson,
                                 dataSource.destinationKey, text)]
    /\ writtenJson' = Put(writtenJson, dataSource.destinationKey, text)
    /\ sourceIndex' = sourceIndex + 1
    /\ pc' = "read"
    /\ UNCHANGED <<universe, itemIndex, keepOnlySet, groups,
                   newItemBinary, groupIndex, manipulationIndex, text, pending,
                   returnData, error, delivered, sourcesUsed, resolved,
                   writtenBinary>>

\* case 'toFile', up to the await: prepareBinaryData is called with the
\* encoded text and execute waits for its result
WriteToFile ==
    /\ pc = "manipulate"
    /\ manipulationIndex > Len(group.manipulations)
    /\ dataSource.writeOperation = "toFile"
    /\ EncodingExists(dataSource.fileEncodeWith)
    /\ pending' = PrepareBinaryData(EncodeFile(dataSource, text),
                                    dataSource.fileName, dataSource.mimeType)
    /\ writtenBinary' = Put(writtenBinary, dataSource.destinationBinaryPropertyName,
                            EncodeFile(dataSource, text))
    /\ pc' = "await"
    /\ UNCHANGED <<universe, items, itemIndex, keepOnlySet, groups, newItemJson,
                   newItemBinary, groupIndex, sourceIndex, manipulationIndex,
                   text, returnData, error, delivered, sourcesUsed, resolved,
                   writtenJson>>

\* case 'toFile', after the await: the result is stored in newItemBinary
StoreBinary ==
    /\ pc = "await"
    /\ newItemBinary' =
         WithProp(newItemBinary, dataSource.destinationBinaryPropertyName, pending)
    /\ items' = [items EXCEPT ![itemIndex + 1] =
                    ItemAfterStore(@, BinaryIsOfItem(keepOnlySet, @),
                                   dataSource.destinationBinaryPropertyName,
                                   pending)]
    /\ pending' = NoPending
    /\ sourceIndex' = sourceIndex + 1
    /\ pc' = "read"
    /\ UNCHANGED <<universe, itemIndex, keepOnlySet, groups, newItemJson,
                   groupIndex, manipulationIndex, text, returnData, error,
                   delivered, sourcesUsed, resolved, writtenJson, writtenBinary>>

\* the switch on writeOperation throws
WriteThrows ==
    /\ pc = "manipulate"
    /\ manipulationIndex > Len(group.manipulations)
    /\ dataSource.writeOperation \notin {"toJSON", "toFile"}
    /\ error' = ErrorOf(NodeOperationError, itemIndex)
    /\ pc' = "threw"
    /\ UNCHANGED <<universe, items, itemIndex, keepOnlySet, groups, newItemJson,
                   newItemBinary, groupIndex, sourceIndex, manipulationIndex,
                   text, pending, returnData, delivered, sourcesUsed, resolved,
                   writtenJson, writtenBinary>>

\* the loop over the data sources of the group ends
EndGroup ==
    /\ pc = "read"
    /\ sourceIndex > Len(group.dataSources)
    /\ pc' = "groups"
    /\ UNCHANGED <<universe, items, itemIndex, keepOnlySet, groups, newItemJson,
                   newItemBinary, groupIndex, sourceIndex, manipulationIndex,
                   text, pending, returnData, error, delivered, sourcesUsed,
                   resolved, writtenJson, writtenBinary>>

\* an output item that always carries the binary object
OutputItemWithBinary ==
    [json |-> newItemJson, binary |-> newItemBinary,
     pairedItem |-> [item |-> itemIndex]]

\* the output item of returnData.push
OutputItem ==
    [json |-> newItemJson,
     binary |-> IF DOMAIN newItemBinary.o = {} THEN Undefined ELSE newItemBinary,
     pairedItem |-> [item |-> itemIndex]]

\* the loop over the text groups ends: returnData.push and the next item;
\* the variables declared in the body of the loop go out of scope
EndItem ==
    /\ pc = "groups"
    /\ groupIndex >= Len(groups)
    /\ returnData' = Append(returnData, OutputItem)
    /\ itemIndex' = itemIndex + 1
    /\ keepOnlySet' = FALSE
    /\ groups' = <<>>
    /\ newItemJson' = EmptyObject
    /\ newItemBinary' = EmptyObject
    /\ groupIndex' = 0
    /\ sourceIndex' = 1
    /\ manipulationIndex' = 1
    /\ resolved' = Unassigned
    /\ writtenJson' = <<>>
    /\ writtenBinary' = <<>>
    /\ pc' = "items"
    /\ UNCHANGED <<universe, items, text, pending, error, delivered, sourcesUsed>>

\* the loop over the items ends: return this.prepareOutputData(returnData)
Return ==
    /\ pc = "items"
    /\ itemIndex >= Len(items)
    /\ delivered' = <<returnData>>
    /\ pc' = "done"
    /\ UNCHANGED <<universe, items, itemIndex, keepOnlySet, groups, newItemJson,
                   newItemBinary, groupIndex, sourceIndex, manipulationIndex,
                   text, pending, returnData, error, sourcesUsed, resolved,
                   writtenJson, writtenBinary>>

Next ==
    \/ StartItem
    \/ StartGroup
    \/ ReadSource
    \/ SkipSource
    \/ ReadThrows
    \/ Manipulate
    \/ ManipulateThrows
    \/ WriteToJSON
    \/ WriteToFile
    \/ StoreBinary
    \/ WriteThrows
    \/ EndGroup
    \/ EndItem
    \/ Return

Spec == Init /\ [][Next]_vars

(***************************************************************************)
(* The manipulations alone: one manipulation applied to one text.          *)
(***************************************************************************)
\* the values of the option fields, as the node declares them
Actions ==
    {"concat", "decodeEncode", "decodeEncodeEntities", "letterCase",
     "normalize", "pad", "repeat", "replace", "substring", "trim"}
NormalizeForms == {"nfc", "nfd", "nfkc", "nfkd"}
CaseTypes ==
    {"camelCase", "capitalize", "kebabCase", "localeLowerCase",
     "localeUpperCase", "lowerCase", "snakeCase", "startCase", "titlecase",
     "upperCase"}
EntityCodings == {"html", "nothing", "url", "urlComponent", "xml"}
EntitiesDecodeModes == {"legacy", "strict"}
EntitiesEncodeModes == {"extensive", "utf8", "nonAscii"}
ReplaceModes == {"substring", "extendedSubstring", "regex", "predefinedRule"}
PredefinedRules == {"tags", "characterGroups"}
Trims == {"trimBoth", "trimStart", "trimEnd"}
Pads == {"padStart", "padEnd"}
Ends == {"complete", "position", "length"}

\* a manipulation holds, in an option field the node reads for it, a value
\* that is none of the declared ones
HasInvalidOption(m) ==
    \/ m.action \notin Actions
    \/ m.action = "letterCase" /\ m.caseType \notin CaseTypes
    \/ m.action = "normalize" /\ m.normalizeForm \notin NormalizeForms
    \/ /\ m.action = "decodeEncodeEntities"
       /\ \/ m.decodeWithEntities \notin EntityCodings
          \/ m.encodeWithEntities \notin EntityCodings
          \/ /\ m.decodeWithEntities \in {"xml", "html"}
             /\ m.entitiesDecodeMode \notin EntitiesDecodeModes
          \/ /\ m.encodeWithEntities \in {"xml", "html"}
             /\ m.entitiesEncodeMode \notin EntitiesEncodeModes
    \/ /\ m.action = "replace"
       /\ \/ m.replaceMode \notin ReplaceModes
          \/ /\ m.replaceMode = "predefinedRule"
             /\ m.predefinedRule \notin PredefinedRules
    \/ m.action = "trim" /\ m.trim \notin Trims
    \/ m.action = "pad" /\ m.pad \notin Pads
    \/ m.action = "substring" /\ m.end \notin Ends

\* manipulations by their option fields
LetterCase(caseType) == [action |-> "letterCase", caseType |-> caseType]
NormalizeTo(normalizeForm) ==
    [action |-> "normalize", normalizeForm |-> normalizeForm]
Entities(decodeWith, decodeMode, encodeWith, encodeMode) ==
    [action |-> "decodeEncodeEntities",
     decodeWithEntities |-> decodeWith, entitiesDecodeMode |-> decodeMode,
     encodeWithEntities |-> encodeWith, entitiesEncodeMode |-> encodeMode]
ReplaceWith(replaceMode, predefinedRule) ==
    [action |-> "replace", replaceMode |-> replaceMode,
     predefinedRule |-> predefinedRule, substring |-> <<98>>, value |-> <<>>,
     replaceAll |-> TRUE, extended |-> FALSE]
TrimWith(trim) ==
    [action |-> "trim", trim |-> trim, trimString |-> <<32>>,
     trimStringUnit |-> TRUE]
PadWith(pad) ==
    [action |-> "pad", pad |-> pad, targetLength |-> JNum(4),
     padString |-> <<42>>]
SubstringWith(end) ==
    [action |-> "substring", end |-> end, startPosition |-> JNum(1),
     endPosition |-> JNum(3), endLength |-> JNum(2)]
RepeatTimes(times) == [action |-> "repeat", times |-> JNum(times)]

\* the texts and the manipulations of the executions of one manipulation
AmpersandText == <<97, 38, 98>>
DecomposedText == <<101, 769>>
ApplyTexts ==
    {<<>>, AbText, HelloText, EAcuteText, AmpersandText, DecomposedText}
ApplyManipulations ==
    {ConcatBrackets, BogusAction, RepeatNegative, RepeatTimes(2)}
    \cup {LetterCase(c) : c \in {"upperCase", "lowerCase", "capitalize", "bogus"}}
    \cup {NormalizeTo(f) : f \in NormalizeForms \cup {"bogus"}}
    \cup {Entities(d, dm, e, em) :
            d \in {"nothing", "xml", "bogus"}, dm \in {"legacy", "bogus"},
            e \in {"nothing", "html", "bogus"}, em \in {"extensive", "bogus"}}
    \cup {ReplaceWith("substring", "tags"), ReplaceWith("bogus", "tags"),
          ReplaceWith("predefinedRule", "bogus")}
    \cup {TrimWith(t) : t \in Trims \cup {"bogus"}}
    \cup {PadWith(p) : p \in Pads \cup {"bogus"}}
    \cup {SubstringWith(e) : e \in Ends \cup {"bogus"}}
ApplyUniverse ==
    [items |-> {}, dataSources |-> {}, manipulations |-> ApplyManipulations]

\* execute stands before the loop over the manipulations of a text group of
\* one manipulation, the text read
ApplyInit ==
    /\ universe = ApplyUniverse
    /\ items = <<>>
    /\ itemIndex = 0
    /\ keepOnlySet = FALSE
    /\ \E m \in universe.manipulations :
         groups = <<[dataSources |-> <<>>, manipulations |-> <<m>>]>>
    /\ newItemJson = EmptyObject
    /\ newItemBinary = EmptyObject
    /\ groupIndex = 1
    /\ sourceIndex = 1
    /\ manipulationIndex = 1
    /\ text \in ApplyTexts
    /\ pending = NoPending
    /\ returnData = <<>>
    /\ pc = "manipulate"
    /\ error = NoError
    /\ delivered = <<>>
    /\ sourcesUsed = 0
    /\ resolved = text
    /\ writtenJson = <<>>
    /\ writtenBinary = <<>>

ApplyNext ==
    \/ Manipulate
    \/ ManipulateThrows

SpecApply == ApplyInit /\ [][ApplyNext]_vars

(***************************************************************************)
(* The body of the loop over the items as a function of the item and its   *)
(* parameters.                                                             *)
(***************************************************************************)
\* the loop over the manipulations
RECURSIVE RunManipulations(_, _)
RunManipulations(t, ms) ==
    IF ms = <<>> THEN Ok(t)
    ELSE LET r == ApplyManipulation(t, Head(ms))
         IN IF r.ok THEN RunManipulations(r.text, Tail(ms)) ELSE r

\* one turn of the loop over the data sources: read, manipulate, write
RunSource(acc, it, ds, ms) ==
    IF ~acc.ok THEN acc
    ELSE LET r == ReadOperation(ds, it, acc.json, acc.binary)
         IN CASE r.kind = "continue" -> acc
              [] r.kind = "throw" -> [acc EXCEPT !.ok = FALSE]
              [] OTHER ->
                 LET m == RunManipulations(r.text, ms)
                 IN IF ~m.ok THEN [acc EXCEPT !.ok = FALSE]
                    ELSE CASE ds.writeOperation = "toJSON" ->
                                [acc EXCEPT !.json =
                                    Set(acc.json, ds.destinationKey, JStr(m.text))]
                           [] ds.writeOperation = "toFile" ->
                                [acc EXCEPT !.binary =
                                    WithProp(acc.binary,
                                             ds.destinationBinaryPropertyName,
                                             PrepareBinaryData(
                                                 EncodeFile(ds, m.text),
                                                 ds.fileName, ds.mimeType))]
                           [] OTHER -> [acc EXCEPT !.ok = FALSE]

\* the loop over the data sources of a text group
RECURSIVE RunSources(_, _, _, _)
RunSources(acc, it, dss, ms) ==
    IF dss = <<>> THEN acc
    ELSE RunSources(RunSource(acc, it, Head(dss), ms), it, Tail(dss), ms)

\* the loop over the text groups
RECURSIVE RunGroups(_, _, _)
RunGroups(acc, it, gs) ==
    IF gs = <<>> THEN acc
    ELSE RunGroups(RunSources(acc, it, Head(gs).dataSources,
                              Head(gs).manipulations), it, Tail(gs))

\* the output item of an item, its keepOnlySet and its text groups
RunItem(it, k, gs, index) ==
    LET acc == RunGroups(
                 [ok |-> TRUE,
                  json |-> IF k THEN EmptyObject ELSE it.json,
                  binary |-> IF ~k /\ it.binary # Undefined
                             THEN JObj(it.binary.o) ELSE EmptyObject],
                 it, gs)
    IN [ok |-> acc.ok,
        output |-> [json |-> acc.json,
                    binary |-> IF DOMAIN acc.binary.o = {} THEN Undefined
                               ELSE acc.binary,
                    pairedItem |-> [item |-> index]]]

(***************************************************************************)
(* Properties of the orchestration.                                        *)
(***************************************************************************)
\* execute is about to read the current data source
AtRead == pc = "read" /\ sourceIndex <= Len(group.dataSources)

\* execute has just read the current data source
JustRead == pc = "manipulate" /\ manipulationIndex = 1

\* the step under way is the end of the loop body of an item
ItemEnds == pc = "groups" /\ pc' = "items"

\* C1: a fromJSON data source with getManipulatedData, read when an earlier
\* data source of the same item has committed a string at its key path,
\* resolves to that committed string and not to the value of the input item.
C1_PreferCommitted ==
    [][(/\ AtRead
        /\ dataSource.readOperation = "fromJSON"
        /\ dataSource.getManipulatedData
        /\ dataSource.sourceKey \in DOMAIN writtenJson
        /\ Get(newItemJson, dataSource.sourceKey)
             = JStr(writtenJson[dataSource.sourceKey]))
       => (/\ pc' = "manipulate"
           /\ resolved' = writtenJson[dataSource.sourceKey])]_vars

\* C2: the text a data source commits is the text it resolved to with the
\* manipulations of its group applied one after another in their order
\* (unchanged when there are none), and the data sources and text groups
\* are gone through one by one in their order.
C2_FoldInOrder ==
    [][/\ (pc = "manipulate" /\ pc' \in {"read", "await"})
          => LET r == RunManipulations(resolved, group.manipulations)
             IN /\ r.ok
                /\ dataSource.writeOperation = "toJSON"
                     => Get(newItemJson', dataSource.destinationKey) = JStr(r.text)
                /\ dataSource.writeOperation = "toFile"
                     => pending' = PrepareBinaryData(EncodeFile(dataSource, r.text),
                                                     dataSource.fileName,
                                                     dataSource.mimeType)
       /\ (pc' # "items" /\ groupIndex' # groupIndex)
          => (groupIndex' = groupIndex + 1 /\ sourceIndex' = 1)
       /\ (pc' # "items" /\ groupIndex' = groupIndex /\ sourceIndex' # sourceIndex)
          => sourceIndex' = sourceIndex + 1
       /\ (pc = "read" /\ pc' = "groups") => sourceIndex > Len(group.dataSources)
       /\ ItemEnds => groupIndex = Len(groups)]_vars

\* C2 happens: "  Hello  " was trimmed and then put in brackets
C2_Witness ==
    /\ pc = "read"
    /\ sourceIndex > 1
    /\ group.manipulations = <<TrimSpaces, ConcatBrackets>>
    /\ resolved = HelloText
    /\ Get(newItemJson, KeyOut) = JStr(<<60, 72, 101, 108, 108, 111, 62>>)

\* C3: after a NodeOperationError raised while item i is processed, the
\* error carries the index i and the execution goes on: the output items of
\* the items before i are delivered and the items after i are processed.
C3_ErrorAbortsOnlyItem ==
    (pc = "threw" /\ error.name = NodeOperationError)
    => (error.itemIndex = itemIndex /\ ENABLED Next)

\* C4: a fromFile data source with getManipulatedData, read after a toFile
\* data source of the same item wrote its binary property, decodes the
\* bytes that data source wrote; when a data source is read, no toFile is
\* waiting for its binary data and the output item holds every buffer
\* written.
C4_ReadsWrittenFile ==
    [][/\ (/\ AtRead
           /\ dataSource.readOperation = "fromFile"
           /\ dataSource.getManipulatedData
           /\ dataSource.binaryPropertyName \in DOMAIN writtenBinary)
          => (/\ pc' = "manipulate"
              /\ resolved' = IconvDecode(writtenBinary[dataSource.binaryPropertyName],
                                         dataSource.fileDecodeWith,
                                         [stripBOM |-> dataSource.fileStripBOM]))
       /\ pc = "read"
          => (/\ pending = NoPending
              /\ \A k \in DOMAIN writtenBinary :
                   /\ k \in DOMAIN newItemBinary.o
                   /\ Base64Decode(newItemBinary.o[k].data) = writtenBinary[k])]_vars

\* C4 happens: the item has a binary property f of its own and the text
\* read from f is the one written before
C4_Witness ==
    /\ JustRead
    /\ dataSource.readOperation = "fromFile"
    /\ dataSource.getManipulatedData
    /\ dataSource.binaryPropertyName = "f"
    /\ "f" \in DOMAIN writtenBinary
    /\ item = ItemMixed
    /\ resolved = EAcuteText

\* the output item holds nothing at the key path or binary property of a
\* data source
AbsentInOutput(ds) ==
    IF ds.readOperation = "fromJSON"
    THEN Get(newItemJson, ds.sourceKey) = Undefined
    ELSE Prop(newItemBinary, ds.binaryPropertyName) = Undefined

\* C5: a fromJSON or fromFile data source without getManipulatedData, or
\* with it when the output item holds nothing at its key path or binary
\* property, reads what the input item alone gives, with keepOnlySet too;
\* and getManipulatedData never makes the read throw.
C5_FallsBackToRaw ==
    [][/\ (/\ AtRead
           /\ dataSource.readOperation \in {"fromJSON", "fromFile"}
           /\ (~dataSource.getManipulatedData \/ AbsentInOutput(dataSource)))
          => LET r == ReadOperation(dataSource, item, EmptyObject, EmptyObject)
             IN /\ r.kind # "throw"
                /\ r.kind = "text" => (pc' = "manipulate" /\ resolved' = r.text)
                /\ r.kind = "continue"
                     => (pc' = "read" /\ sourceIndex' = sourceIndex + 1)
       /\ (/\ AtRead
           /\ dataSource.readOperation \in {"fromJSON", "fromFile"}
           /\ dataSource.getManipulatedData)
          => pc' # "threw"]_vars

\* C5 happens: with keepOnlySet the output item holds no data and the data
\* source with getManipulatedData read the data of the input item
C5_Witness ==
    /\ JustRead
    /\ keepOnlySet
    /\ dataSource.readOperation = "fromJSON"
    /\ dataSource.getManipulatedData
    /\ dataSource.sourceKey = KeyData
    /\ Get(newItemJson, KeyData) = Undefined
    /\ item = ItemHello
    /\ resolved = HelloText

\* the binary property of a fromFile data source is nowhere it looks
AbsentEverywhere(ds) ==
    /\ item.binary = Undefined \/ Prop(item.binary, ds.binaryPropertyName) = Undefined
    /\ ds.getManipulatedData => Prop(newItemBinary, ds.binaryPropertyName) = Undefined

\* C6: a fromFile data source whose binary property is nowhere it looks is
\* skipped: no error, no manipulation, the output item unchanged, and
\* execute goes on with the next data source.
C6_AbsentFileSkipped ==
    [][(/\ AtRead
        /\ dataSource.readOperation = "fromFile"
        /\ AbsentEverywhere(dataSource))
       => (/\ pc' = "read"
           /\ sourceIndex' = sourceIndex + 1
           /\ UNCHANGED <<newItemJson, newItemBinary, text, error, returnData,
                          writtenJson, writtenBinary, groups, groupIndex,
                          itemIndex>>)]_vars

\* C6 happens: the first data source of two reads the binary property g,
\* which is nowhere, and execute stands before the second with nothing
\* written
C6_Witness ==
    /\ pc = "read"
    /\ sourceIndex = 2
    /\ Len(group.dataSources) = 2
    /\ group.dataSources[1].readOperation = "fromFile"
    /\ group.dataSources[1].binaryPropertyName = "g"
    /\ newItemBinary = SeedBinary(keepOnlySet, item)
    /\ newItemJson = SeedJson(keepOnlySet, item)
    /\ error = NoError

\* C7: fromJSON uses a string as it is; skips anything else when
\* skipNonString is set, committing nothing and raising nothing; and
\* otherwise converts it to its string form, null and undefined to the
\* empty string.
C7_FromJSONConversion ==
    [][(AtRead /\ dataSource.readOperation = "fromJSON")
       => LET value == JsonValue(dataSource, item, newItemJson)
          IN IF value.t = "string"
             THEN pc' = "manipulate" /\ resolved' = value.s
             ELSE IF dataSource.skipNonString
             THEN /\ pc' = "read"
                  /\ sourceIndex' = sourceIndex + 1
                  /\ UNCHANGED <<newItemJson, newItemBinary, error, writtenJson,
                                 writtenBinary>>
             ELSE /\ pc' = "manipulate"
                  /\ resolved' = IF value.t \in {"null", "undefined"} THEN <<>>
                                 ELSE ToStringJS(value)]_vars

\* C7 happens: the value read is null and the text is empty
C7_Witness ==
    /\ JustRead
    /\ dataSource.readOperation = "fromJSON"
    /\ ~dataSource.skipNonString
    /\ JsonValue(dataSource, item, newItemJson) = JNull
    /\ resolved = <<>>

\* the key paths of the values of an object that are no objects, for
\* objects in objects
LeafPaths(v) ==
    {<<k>> : k \in {j \in DOMAIN v.o : ~IsObject(v.o[j])}}
    \cup UNION {{<<k, ".", j>> : j \in DOMAIN v.o[k].o} :
                k \in {j \in DOMAIN v.o : IsObject(v.o[j])}}

\* the json of an output item is the input's with the committed texts
KeptAndSetJson(out) ==
    /\ \A p \in DOMAIN writtenJson : Get(out.json, p) = JStr(writtenJson[p])
    /\ keepOnlySet => LeafPaths(out.json) = DOMAIN writtenJson
    /\ ~keepOnlySet
         => /\ LeafPaths(out.json) = LeafPaths(item.json) \cup DOMAIN writtenJson
            /\ \A p \in LeafPaths(item.json) \ DOMAIN writtenJson :
                 Get(out.json, p) = Get(item.json, p)

\* the binary of an output item is the input's with the committed buffers
KeptAndSetBinary(out) ==
    LET kept == IF keepOnlySet \/ item.binary = Undefined THEN {}
                ELSE DOMAIN item.binary.o
        keys == kept \cup DOMAIN writtenBinary
    IN IF keys = {} THEN out.binary = Undefined
       ELSE /\ out.binary # Undefined
            /\ DOMAIN out.binary.o = keys
            /\ \A k \in keys :
                 IF k \in DOMAIN writtenBinary
                 THEN Base64Decode(out.binary.o[k].data) = writtenBinary[k]
                 ELSE out.binary.o[k] = item.binary.o[k]

\* C8: without keepOnlySet the output item holds every value and binary
\* property of the input item that no data source overwrote, and the
\* committed ones; with keepOnlySet it holds the committed ones only.
C8_KeepOnlySet ==
    [][ItemEnds
       => /\ Len(returnData') = Len(returnData) + 1
          /\ KeptAndSetJson(returnData'[Len(returnData')])
          /\ KeptAndSetBinary(returnData'[Len(returnData')])]_vars

\* C8 happens: {data: "  Hello  "} gave {data: "  Hello  ", out: "HELLO"}
C8_Witness ==
    /\ universe = FoldUniverse
    /\ Len(returnData) >= 1
    /\ items[1] = ItemHello
    /\ returnData[1].json =
         JObj([data |-> JStr(HelloText), out |-> JStr(<<72, 69, 76, 76, 79>>)])

\* C9: the output item of an item is what the item, its keepOnlySet and its
\* text groups give by themselves, whatever the items before it committed;
\* the loop body of an item starts from the item alone.
C9_PerItemAccumulator ==
    [][/\ ItemEnds
          => LET r == RunItem(item, keepOnlySet, groups, itemIndex)
             IN r.ok /\ returnData' = Append(returnData, r.output)
       /\ (pc = "items" /\ pc' = "groups")
          => /\ newItemJson' = IF keepOnlySet' THEN EmptyObject ELSE item.json
             /\ writtenJson' = <<>>
             /\ writtenBinary' = <<>>]_vars

\* C9 happens: the first item committed out; the second, with keepOnlySet,
\* looked out up with getManipulatedData and found nothing
C9_Witness ==
    /\ universe = JsonUniverse
    /\ Len(returnData) = 2
    /\ Get(returnData[1].json, KeyOut) = JStr(HelloText)
    /\ returnData[2].json = JObj([n |-> JObj([x |-> JStr(<<>>)])])

\* C10: a manipulation that holds an undeclared value in an option field is
\* never applied: it raises an error.
C10_InvalidOptionFails ==
    (pc = "manipulate" /\ manipulationIndex > 1)
    => ~HasInvalidOption(group.manipulations[manipulationIndex - 1])


(***************************************************************************)
(* Families of manipulations: execute stands before the loop over the      *)
(* manipulations of a text group of one manipulation of the family, the    *)
(* text read.                                                              *)
(***************************************************************************)
ManipulationInit(ms, texts) ==
    /\ universe = [items |-> {}, dataSources |-> {}, manipulations |-> ms]
    /\ items = <<>>
    /\ itemIndex = 0
    /\ keepOnlySet = FALSE
    /\ \E m \in ms :
         groups = <<[dataSources |-> <<>>, manipulations |-> <<m>>]>>
    /\ newItemJson = EmptyObject
    /\ newItemBinary = EmptyObject
    /\ groupIndex = 1
    /\ sourceIndex = 1
    /\ manipulationIndex = 1
    /\ text \in texts
    /\ pending = NoPending
    /\ returnData = <<>>
    /\ pc = "manipulate"
    /\ error = NoError
    /\ delivered = <<>>
    /\ sourcesUsed = 0
    /\ resolved = text
    /\ writtenJson = <<>>
    /\ writtenBinary = <<>>

\* the manipulation of the text group, and the states in which it returned
\* (text is its result, resolved the text it was applied to)
manipulation == groups[1].manipulations[1]
Manipulated == pc = "manipulate" /\ manipulationIndex = 2

(***************************************************************************)
(* case 'substring'                                                        *)
(***************************************************************************)
HelloWorldText == <<72, 101, 108, 108, 111, 87, 111, 114, 108, 100>>
AbcdText == <<97, 98, 99, 100>>

SubstringOf(startPosition, end, endPosition, endLength) ==
    [action |-> "substring", end |-> end, startPosition |-> startPosition,
     endPosition |-> endPosition, endLength |-> endLength]

SubstringStarts == (-4 .. 4) \cup {7, -10, -11}
SubstringEndPositions == (-3 .. 3) \cup {9}
SubstringLengths == {JNull} \cup {JNum(n) : n \in -1 .. 3}
SubstringTexts == {<<>>, AbText, AbcdText, HelloWorldText}
SubstringManipulations ==
    {SubstringOf(JNum(s), "complete", JNum(1), JNull) : s \in SubstringStarts}
    \cup {SubstringOf(JNum(s), "position", JNum(e), JNull) :
            s \in SubstringStarts, e \in SubstringEndPositions}
    \cup {SubstringOf(JNum(s), "length", JNum(1), n) :
            s \in SubstringStarts, n \in SubstringLengths}
    \cup {SubstringOf(JNull, e, JNum(1), JNum(1)) : e \in Ends \cup {"bogus"}}

SubstringInit == ManipulationInit(SubstringManipulations, SubstringTexts)
SubstringNext ==
    \/ Manipulate
    \/ ManipulateThrows
SpecSubstring == SubstringInit /\ [][SubstringNext]_vars

\* the position-mode substring of s from offset a to offset b (exclusive),
\* both within 0 .. Len(s)
Window(s, a, b) == SubSeq(s, a + 1, IF b > Len(s) THEN Len(s) ELSE b)

\* C11: substring in length mode with a negative start -k (0 < k <= len)
\* and length n selects the window anchored at the end of the text: the
\* result is the position-mode substring from len - k to len - k + n;
\* start -3 and length 2 on "HelloWorld" yield "rl"
C11_NegativeStartLength ==
    (/\ Manipulated
     /\ manipulation.end = "length"
     /\ manipulation.startPosition.t = "number"
     /\ manipulation.startPosition.n < 0
     /\ -manipulation.startPosition.n <= Len(resolved))
    => text = Window(resolved, Len(resolved) + manipulation.startPosition.n,
                     Len(resolved) + manipulation.startPosition.n
                     + manipulation.endLength.n)

\* C12: a negative start -k (0 < k <= len) counts from the end of the text:
\* complete mode returns the last k characters, position mode with the end
\* -m (0 < m <= len) the characters from len - k up to (excluding) len - m
C12_NegativeOffsetsFromEnd ==
    (/\ Manipulated
     /\ manipulation.end \in {"complete", "position"}
     /\ manipulation.startPosition.t = "number"
     /\ manipulation.startPosition.n < 0
     /\ -manipulation.startPosition.n <= Len(resolved))
    => \/ /\ manipulation.end = "complete"
          /\ text = Window(resolved,
                           Len(resolved) + manipulation.startPosition.n,
                           Len(resolved))
       \/ /\ manipulation.end = "position"
          /\ \/ manipulation.endPosition.n >= 0
             \/ -manipulation.endPosition.n > Len(resolved)
             \/ manipulation.endPosition.n < manipulation.startPosition.n
             \/ text = Window(resolved,
                              Len(resolved) + manipulation.startPosition.n,
                              Len(resolved) + manipulation.endPosition.n)

(***************************************************************************)
(* The numeric parameters of pad, substring and repeat.                    *)
(***************************************************************************)
\* the numeric parameter the manipulation depends on is missing or negative
HasNegativeParameter(m) ==
    \/ /\ m.action = "pad"
       /\ (m.targetLength.t # "number" \/ m.targetLength.n < 0)
    \/ /\ m.action = "substring"
       /\ m.end = "length"
       /\ (m.endLength.t # "number" \/ m.endLength.n < 0)
    \/ /\ m.action = "repeat"
       /\ (m.times.t # "number" \/ m.times.n < 0)

\* C13: a manipulation whose numeric parameter (target length of pad, length
\* of substring in length mode, times of repeat) is negative or missing
\* raises an error attributed to the index of the item and leaves the text
\* and the output item as they were; once the error is raised execute takes
\* no further step, so nothing is committed for the data source
C13_NegativeParameterRejected ==
    [][/\ pc # "threw"
       /\ (/\ pc = "manipulate"
           /\ manipulationIndex <= Len(group.manipulations)
           /\ HasNegativeParameter(group.manipulations[manipulationIndex]))
          => /\ pc' = "threw"
             /\ error' = [name |-> NodeOperationError, itemIndex |-> itemIndex]
             /\ text' = text
             /\ newItemJson' = newItemJson
             /\ newItemBinary' = newItemBinary
             /\ returnData' = returnData
             /\ writtenJson' = writtenJson
             /\ writtenBinary' = writtenBinary]_vars

C13_Witness ==
    /\ pc = "threw"
    /\ itemIndex = 1
    /\ error = [name |-> NodeOperationError, itemIndex |-> 1]
    /\ manipulationIndex = 2
    /\ Len(group.manipulations) = 2
    /\ group.manipulations[manipulationIndex] = PadNegative
    /\ resolved = AbText
    /\ text = <<65, 66>>

(***************************************************************************)
(* case 'trim'                                                             *)
(***************************************************************************)
AbabXabText == <<97, 98, 97, 98, 88, 97, 98>>
AbabText == <<97, 98, 97, 98>>
TabbedText == <<9, 32, 88, 32, 10>>
XText == <<88>>

TrimOf(trim, trimString, trimStringUnit) ==
    [action |-> "trim", trim |-> trim, trimString |-> trimString,
     trimStringUnit |-> trimStringUnit]

TrimStrings == {<<>>, <<32>>, <<97>>, AbText, <<98, 97>>}
TrimTexts == {<<>>, AbabXabText, AbabText, TabbedText, HelloText}
TrimManipulations ==
    {TrimOf(t, s, u) : t \in Trims \cup {"bogus"}, s \in TrimStrings,
                       u \in BOOLEAN}

TrimInit == ManipulationInit(TrimManipulations, TrimTexts)
TrimNext ==
    \/ Manipulate
    \/ ManipulateThrows
SpecTrim == TrimInit /\ [][TrimNext]_vars

\* t is s without i characters at its start and j characters at its end
Trimmed(s, t, i, j) == i + j <= Len(s) /\ t = SubSeq(s, i + 1, Len(s) - j)
EndsWith(s, u) ==
    Len(u) <= Len(s) /\ SubSeq(s, Len(s) - Len(u) + 1, Len(s)) = u

\* t is s without whole repetitions of u at the ends the trim affects, and
\* no repetition of u is left there
IsUnitTrim(s, t, u, trim) ==
    IF u = <<>> THEN t = s
    ELSE \E i, j \in 0 .. Len(s) :
            /\ s = Repeat(u, i) \o t \o Repeat(u, j)
            /\ trim = "trimEnd" => i = 0
            /\ trim = "trimStart" => j = 0
            /\ trim # "trimEnd" => ~StartsWithAt(t, u, 1)
            /\ trim # "trimStart" => ~EndsWith(t, u)

\* t is s without the runs of characters of cs at the ends the trim
\* affects, and no character of cs is left there
IsCharactersTrim(s, t, cs, trim) ==
    \E i, j \in 0 .. Len(s) :
       /\ Trimmed(s, t, i, j)
       /\ \A k \in 1 .. i : s[k] \in cs
       /\ \A k \in (Len(s) - j + 1) .. Len(s) : s[k] \in cs
       /\ trim = "trimEnd" => i = 0
       /\ trim = "trimStart" => j = 0
       /\ trim # "trimEnd" => (t = <<>> \/ t[1] \notin cs)
       /\ trim # "trimStart" => (t = <<>> \/ t[Len(t)] \notin cs)

\* the examples: on "ababXab", trimBoth of "ab" yields "X" as a unit and per
\* character, and trimBoth of "ba" as a unit leaves the text unchanged
TrimExamples ==
    (Manipulated /\ resolved = AbabXabText /\ manipulation.trim = "trimBoth")
    => /\ manipulation.trimString = AbText => text = XText
       /\ (manipulation.trimString = <<98, 97>> /\ manipulation.trimStringUnit)
          => text = AbabXabText

\* C14 as stated: trim as a unit removes whole repetitions of the trim
\* string from the affected ends and nothing else, trim per character
\* removes the runs of characters that occur in the trim string
C14_TrimAsStated ==
    Manipulated =>
       /\ TrimExamples
       /\ IF manipulation.trimStringUnit
          THEN IsUnitTrim(resolved, text, manipulation.trimString,
                          manipulation.trim)
          ELSE IsCharactersTrim(resolved, text, Chars(manipulation.trimString),
                                manipulation.trim)

\* C14: trim as a unit removes whole repetitions of the trim string from the
\* affected ends and nothing else, unless the trim string is one space: then
\* it removes the white space (tabs, line ends, ...) of the affected ends;
\* trim per character removes the runs of characters that occur in the trim
\* string; on "ababXab", "ab" yields "X" both ways and "ba" as a unit leaves
\* the text unchanged
C14_TrimUnitOrCharacters ==
    Manipulated =>
       /\ TrimExamples
       /\ IF manipulation.trimStringUnit /\ manipulation.trimString = <<32>>
          THEN IsCharactersTrim(resolved, text, WhiteSpace, manipulation.trim)
          ELSE IF manipulation.trimStringUnit
          THEN IsUnitTrim(resolved, text, manipulation.trimString,
                          manipulation.trim)
          ELSE IsCharactersTrim(resolved, text, Chars(manipulation.trimString),
                                manipulation.trim)

C14_Witness ==
    /\ Manipulated
    /\ manipulation = TrimOf("trimBoth", <<98, 97>>, TRUE)
    /\ resolved = AbabXabText
    /\ text = AbabXabText

(***************************************************************************)
(* case 'replace', predefinedRule 'characterGroups'                        *)
(***************************************************************************)
CharacterGroupsOf(classes, numberMin, numberMax, min, max, value) ==
    [action |-> "replace", replaceMode |-> "predefinedRule",
     predefinedRule |-> "characterGroups", value |-> value, extended |-> FALSE,
     newline |-> "newline" \in classes, newlineMin |-> min, newlineMax |-> max,
     number |-> "number" \in classes, numberMin |-> numberMin,
     numberMax |-> numberMax,
     alpha |-> "alpha" \in classes, alphaMin |-> min, alphaMax |-> max,
     whitespace |-> "whitespace" \in classes, whitespaceMin |-> min,
     whitespaceMax |-> max]

MaxCount == 2
CharacterClasses == {"newline", "number", "alpha", "whitespace"}
HashText == <<35>>
\* "a1b22", "ab 12" followed by a line end, "7"
GroupTexts ==
    {<<>>, <<55>>, <<97, 49, 98, 50, 50>>, <<97, 98, 32, 49, 50, 13, 10>>}
CharacterGroupsManipulations ==
    {CharacterGroupsOf(cs, nmin, nmax, mm[1], mm[2], HashText) :
        cs \in SUBSET CharacterClasses,
        nmin \in 0 .. MaxCount, nmax \in 0 .. MaxCount,
        mm \in {<<0, 0>>, <<1, 0>>, <<1, MaxCount>>}}

CharacterGroupsInit ==
    ManipulationInit(CharacterGroupsManipulations, GroupTexts)
CharacterGroupsNext ==
    \/ Manipulate
    \/ ManipulateThrows
SpecCharacterGroups == CharacterGroupsInit /\ [][CharacterGroupsNext]_vars

\* the quantifier of a class as the claim has it: min = 0 is zero or more,
\* min > 0 with max = 0 is min or more, otherwise min to max
StatedRegexGroup(base, min, max) ==
    IF min = 0 THEN [base |-> base, lo |-> 0, hi |-> -1]
    ELSE IF max = 0 THEN [base |-> base, lo |-> min, hi |-> -1]
    ELSE [base |-> base, lo |-> min, hi |-> max]
StatedCharacterGroups(m) ==
    (IF m.newline
     THEN <<StatedRegexGroup("(\\r\\n|\\r|\\n)", m.newlineMin, m.newlineMax)>>
     ELSE <<>>)
    \o (IF m.number THEN <<StatedRegexGroup("\\d", m.numberMin, m.numberMax)>>
        ELSE <<>>)
    \o (IF m.alpha THEN <<StatedRegexGroup("[a-zA-Z]", m.alphaMin, m.alphaMax)>>
        ELSE <<>>)
    \o (IF m.whitespace
        THEN <<StatedRegexGroup("\\s", m.whitespaceMin, m.whitespaceMax)>>
        ELSE <<>>)

\* C15: the quantifier of each enabled class is: min = 0 zero or more,
\* min > 0 with max = 0 min or more, min > 0 with max > 0 min to max; the
\* enabled classes are joined into one alternation and every match in the
\* text is replaced by the value
C15_CharacterGroupQuantifiers ==
    (Manipulated /\ manipulation.predefinedRule = "characterGroups")
    => text = RegexReplace(resolved,
                           CharacterGroupsRegExp(StatedCharacterGroups(manipulation)),
                           manipulation.value)

(***************************************************************************)
(* case 'decodeEncode'                                                     *)
(***************************************************************************)
DecodeEncodeOf(decodeWith, encodeWith, stripBOM, addBOM) ==
    [action |-> "decodeEncode", decodeWith |-> decodeWith,
     encodeWith |-> encodeWith, stripBOM |-> stripBOM, addBOM |-> addBOM]

Charsets == {"utf8", "iso88591", "bogus"}
DecodeEncodeTexts ==
    {<<>>, AbText, EAcuteText, BOMChar, BOMChar \o AbText, BOMChar \o BOMChar}
DecodeEncodeManipulations ==
    {DecodeEncodeOf(d, e, s, a) :
        d \in Charsets, e \in Charsets, s \in BOOLEAN, a \in BOOLEAN}

DecodeEncodeInit ==
    ManipulationInit(DecodeEncodeManipulations, DecodeEncodeTexts)
DecodeEncodeNext ==
    \/ Manipulate
    \/ ManipulateThrows
SpecDecodeEncode == DecodeEncodeInit /\ [][DecodeEncodeNext]_vars

\* C16: decodeEncode with different charsets decodes the bytes of the text
\* with the stripBOM option and encodes the result with the addBOM option
C16_BOMOptionsPerDirection ==
    (Manipulated /\ manipulation.decodeWith # manipulation.encodeWith)
    => text = Utf8Decode(
                 IconvEncode(
                    IconvDecode(Utf8Encode(resolved), manipulation.decodeWith,
                                [stripBOM |-> manipulation.stripBOM]),
                    manipulation.encodeWith,
                    [addBOM |-> manipulation.addBOM]))

(***************************************************************************)
(* case 'replace', replaceMode 'regex'                                     *)
(***************************************************************************)
ReplaceRegexOf(regex, pattern) ==
    [action |-> "replace", replaceMode |-> "regex", regex |-> regex,
     pattern |-> pattern, extended |-> FALSE]

\* "/a(b)c/gi", "$1", "ABCxAbc", "BxB" and "Bxb"
LiteralABC == <<47, 97, 40, 98, 41, 99, 47, 103, 105>>
FirstGroup == <<36, 49>>
ABCxAbcText == <<65, 66, 67, 120, 65, 98, 99>>
BxBText == <<66, 120, 66>>
BxbText == <<66, 120, 98>>
\* "abcabc" and "a/b/x/ab/xb"
AbcAbcText == <<97, 98, 99, 97, 98, 99>>
SlashedText == <<97, 47, 98, 47, 120, 47, 97, 98, 47, 120, 98>>

\* the configured patterns: /a(b)c/gi, /a(b)c/g, /a(b)c/i, /a(b)c/, a(b)c,
\* b, /b, /ab/x, /b/gg, /a/b/g, //g, /b/m and (b
RegexPatterns ==
    {LiteralABC, SubSeq(LiteralABC, 1, 8), SubSeq(LiteralABC, 1, 7) \o <<105>>,
     SubSeq(LiteralABC, 1, 7), SubSeq(LiteralABC, 2, 6), <<98>>, <<47, 98>>,
     <<47, 97, 98, 47, 120>>, <<47, 98, 47, 103, 103>>,
     <<47, 97, 47, 98, 47, 103>>, <<47, 47, 103>>, <<47, 98, 47, 109>>,
     <<40, 98>>}
RegexTemplates == {<<>>, HashText, FirstGroup}
RegexTexts == {<<>>, ABCxAbcText, AbcAbcText, SlashedText}
RegexManipulations ==
    {ReplaceRegexOf(p, t) : p \in RegexPatterns, t \in RegexTemplates}

RegexInit == ManipulationInit(RegexManipulations, RegexTexts)
RegexNext ==
    \/ Manipulate
    \/ ManipulateThrows
SpecRegex == RegexInit /\ [][RegexNext]_vars

\* the position of the last slash of a pattern, 0 if it has none
LastSlash(p) ==
    IF 47 \notin Chars(p) THEN 0
    ELSE CHOOSE j \in DOMAIN p :
            p[j] = 47 /\ \A k \in (j + 1) .. Len(p) : p[k] # 47

\* the pattern has the form /body/flags, the flags drawn from g i m u s y
HasLiteralForm(p) ==
    /\ Len(p) >= 2
    /\ p[1] = 47
    /\ LastSlash(p) >= 2
    /\ \A k \in (LastSlash(p) + 1) .. Len(p) : p[k] \in {103, 105, 109, 117, 115, 121}
    /\ \A k \in 2 .. (LastSlash(p) - 1) : p[k] \notin LineTerminators

\* the expression of a pattern: body and flags of the form /body/flags,
\* otherwise the pattern as the body and no flags
StatedRegExp(p) ==
    IF HasLiteralForm(p)
    THEN NewRegExp(SubSeq(p, 2, LastSlash(p) - 1),
                   SubSeq(p, LastSlash(p) + 1, Len(p)))
    ELSE NewRegExp(p, <<>>)

RegexSplit ==
    (Manipulated /\ manipulation.replaceMode = "regex")
    => text = RegexReplace(resolved, StatedRegExp(manipulation.regex),
                           manipulation.pattern)

ReplaceSubstringOf(replaceMode, substring, value, replaceAllFlag) ==
    [action |-> "replace", replaceMode |-> replaceMode,
     substring |-> substring, value |-> value, replaceAll |-> replaceAllFlag,
     extended |-> FALSE]

\* the search strings: "", "b", "bb", "bc", ".", "a.c", "z" and "\t" (a
\* backslash and the letter t)
SearchStrings ==
    {<<>>, <<98>>, <<98, 98>>, <<98, 99>>, <<46>>, <<97, 46, 99>>, <<122>>,
     <<92, 116>>}
\* the values: "", "#" and "bb"
ReplaceValues == {<<>>, HashText, <<98, 98>>}
\* the texts: "", "abcabc", "bbb", "a.c", a tab and "b", "a\tb\t"
ReplaceTexts ==
    {<<>>, AbcAbcText, <<98, 98, 98>>, <<97, 46, 99, 9, 98>>,
     <<97, 92, 116, 98, 92, 116>>}
ReplaceSubstringManipulations ==
    {ReplaceSubstringOf(mode, s, v, a) :
        mode \in {"substring", "extendedSubstring", "bogus"},
        s \in SearchStrings, v \in ReplaceValues, a \in BOOLEAN}

ReplaceSubstringInit ==
    ManipulationInit(ReplaceSubstringManipulations, ReplaceTexts)
ReplaceSubstringNext ==
    \/ Manipulate
    \/ ManipulateThrows
SpecReplaceSubstring == ReplaceSubstringInit /\ [][ReplaceSubstringNext]_vars

\* the offsets at which s holds u
Occurrences(s, u) == {i \in 0 .. Len(s) : StartsWithAt(s, u, i + 1)}
FirstOccurrence(s, u) ==
    CHOOSE i \in Occurrences(s, u) : \A k \in Occurrences(s, u) : i <= k

\* s with the leftmost occurrence of u replaced by v, and when all is set
\* the same for the rest of s after that occurrence; the empty u occurs
\* before every character and at the end
RECURSIVE StatedReplace(_, _, _, _)
StatedReplace(s, u, v, all) ==
    IF Occurrences(s, u) = {} THEN s
    ELSE IF u = <<>>
    THEN v \o (IF all /\ s # <<>>
               THEN <<Head(s)>> \o StatedReplace(Tail(s), u, v, all) ELSE s)
    ELSE SubSeq(s, 1, FirstOccurrence(s, u)) \o v
         \o (IF all
             THEN StatedReplace(SubSeq(s, FirstOccurrence(s, u) + Len(u) + 1,
                                       Len(s)), u, v, all)
             ELSE SubSeq(s, FirstOccurrence(s, u) + Len(u) + 1, Len(s)))

\* C18: substring mode matches the search string literally; without
\* replaceAll only the leftmost occurrence is replaced, with replaceAll
\* every occurrence, left to right and not overlapping; a text without the
\* search string is unchanged; extendedSubstring does the same with the
\* unescaped search string
C18_SubstringExtent ==
    Manipulated =>
       /\ manipulation.replaceMode = "substring"
          => text = StatedReplace(resolved, manipulation.substring,
                                  manipulation.value, manipulation.replaceAll)
       /\ manipulation.replaceMode = "extendedSubstring"
          => text = StatedReplace(resolved,
                                  unescapeEscapedCharacters(manipulation.substring),
                                  manipulation.value, manipulation.replaceAll)

C18_Witness ==
    /\ Manipulated
    /\ manipulation = ReplaceSubstringOf("substring", <<98>>, HashText, TRUE)
    /\ resolved = AbcAbcText
    /\ text = <<97, 35, 99, 97, 35, 99>>

(***************************************************************************)
(* The output items.                                                       *)
(***************************************************************************)
\* C19: when no item fails, one output item is pushed per input item, in
\* the order of the input: the i-th output item is built from the i-th
\* input item and paired with its index, it is pushed only when all the
\* text groups and data sources of the item were gone through, and it
\* carries a binary object exactly when that object holds a property; the
\* output items are returned when the last item was processed
C19_OneOutputPerItem ==
    [][/\ returnData' # returnData
          => /\ ItemEnds
             /\ groupIndex >= Len(groups)
             /\ groups # <<>> => sourceIndex > Len(group.dataSources)
             /\ pending = NoPending
             /\ returnData' =
                  Append(returnData,
                         RunItem(items[Len(returnData) + 1], keepOnlySet,
                                 groups, Len(returnData)).output)
             /\ returnData'[Len(returnData')].binary =
                  IF DOMAIN newItemBinary.o = {} THEN Undefined ELSE newItemBinary
       /\ ItemEnds => (Len(returnData') = itemIndex' /\ itemIndex' = itemIndex + 1)
       /\ pc' = "done"
          => /\ delivered' = <<returnData>>
             /\ Len(returnData) = Len(items)
             /\ \A i \in DOMAIN returnData :
                  /\ returnData[i].pairedItem.item = i - 1
                  /\ \/ returnData[i].binary = Undefined
                     \/ DOMAIN returnData[i].binary.o # {}]_vars

C19_Witness ==
    /\ pc = "done"
    /\ items = <<ItemHello, ItemMixed>>
    /\ Len(delivered[1]) = 2
    /\ delivered[1][1].binary = Undefined
    /\ Get(delivered[1][1].json, KeyOut) = JStr(<<72, 69, 76, 76, 79>>)
    /\ delivered[1][2].binary # Undefined
    /\ delivered[1][2].pairedItem.item = 1

(***************************************************************************)
(* The writes of a data source.                                            *)
(***************************************************************************)
\* the steps that commit: set(newItemJson, ...) and the assignment of the
\* awaited binary data to newItemBinary
CommitsJson ==
    pc = "manipulate" /\ pc' = "read" /\ dataSource.writeOperation = "toJSON"
CommitsBinary == pc = "await" /\ pc' = "read"

\* C20: a commit changes one destination of the output item.  toFile stores
\* the binary data built from the text under the destination property,
\* replacing what was there, and leaves the other properties and the json
\* unchanged; toJSON sets the text at the key path, creating the containers
\* on the way, and leaves the binary object and the values at unrelated key
\* paths unchanged.  Of two writes to one destination the later one is in
\* the output item pushed
C20_CommitFrame ==
    [][/\ CommitsJson
          => /\ Get(newItemJson', dataSource.destinationKey) = JStr(text)
             /\ \A q \in Containers(dataSource.destinationKey) :
                  IsObject(Get(newItemJson', q))
             /\ \A p \in LeafPaths(newItemJson) :
                  (~IsPrefix(p, dataSource.destinationKey)
                   /\ ~IsPrefix(dataSource.destinationKey, p))
                  => Get(newItemJson', p) = Get(newItemJson, p)
             /\ \A p \in LeafPaths(newItemJson') :
                  p \in LeafPaths(newItemJson)
                  \/ IsPrefix(dataSource.destinationKey, p)
             /\ newItemBinary' = newItemBinary
       /\ (pc = "manipulate" /\ pc' = "await")
          => /\ pending' = PrepareBinaryData(EncodeFile(dataSource, text),
                                             dataSource.fileName,
                                             dataSource.mimeType)
             /\ newItemBinary' = newItemBinary
             /\ newItemJson' = newItemJson
       /\ CommitsBinary
          => /\ DOMAIN newItemBinary'.o =
                  DOMAIN newItemBinary.o
                  \cup {dataSource.destinationBinaryPropertyName}
             /\ \A k \in DOMAIN newItemBinary'.o :
                  newItemBinary'.o[k] =
                     IF k = dataSource.destinationBinaryPropertyName
                     THEN pending ELSE newItemBinary.o[k]
             /\ newItemJson' = newItemJson
       /\ (newItemJson' # newItemJson /\ pc # "items" /\ pc' # "items")
          => CommitsJson
       /\ (newItemBinary' # newItemBinary /\ pc # "items" /\ pc' # "items")
          => CommitsBinary
       /\ ItemEnds
          => /\ \A p \in DOMAIN writtenJson :
                  Get(returnData'[Len(returnData')].json, p) = JStr(writtenJson[p])
             /\ \A k \in DOMAIN writtenBinary :
                  Base64Decode(returnData'[Len(returnData')].binary.o[k].data)
                  = writtenBinary[k]]_vars

\* C20 happens: two data sources wrote the binary property f the item came
\* with, and the output item holds the bytes of the second
C20_Witness ==
    /\ pc = "read"
    /\ item = ItemMixed
    /\ ~keepOnlySet
    /\ sourceIndex = 3
    /\ group.dataSources =
         <<FromText(EAcuteText) @@ ToFile("f", "utf8", TRUE),
           FromText(EAcuteText) @@ ToFile("f", "iso88591", FALSE)>>
    /\ Base64Decode(newItemBinary.o["f"].data) = <<233>>
    /\ newItemJson = ItemMixed.json

(***************************************************************************)
(* case 'decodeEncode' and case 'decodeEncodeEntities'                     *)
(***************************************************************************)
\* the texts "&amp;", "&#x41;", "%41", "%26", "%", "a b" and "<"
CodingTexts ==
    {<<>>, AmpersandText, EAcuteText, <<38, 97, 109, 112, 59>>,
     <<38, 35, 120, 52, 49, 59>>, <<37, 52, 49>>, <<37, 50, 54>>, <<37>>,
     <<97, 32, 98>>, <<60>>, BOMChar \o AbText}
EntitiesManipulations ==
    {Entities(d, dm, e, em) :
        d \in EntityCodings \cup {"bogus"},
        dm \in EntitiesDecodeModes \cup {"bogus"},
        e \in EntityCodings \cup {"bogus"},
        em \in EntitiesEncodeModes \cup {"bogus"}}
CodingManipulations == EntitiesManipulations \cup DecodeEncodeManipulations

CodingInit == ManipulationInit(CodingManipulations, CodingTexts)
CodingNext ==
    \/ Manipulate
    \/ ManipulateThrows
SpecCoding == CodingInit /\ [][CodingNext]_vars

\* the manipulation decodes and encodes with the same charset or coding
SameCoding(m) ==
    \/ m.action = "decodeEncode" /\ m.decodeWith = m.encodeWith
    \/ /\ m.action = "decodeEncodeEntities"
       /\ m.decodeWithEntities = m.encodeWithEntities

\* C21: decodeEncode with equal charsets and decodeEncodeEntities with equal
\* codings never fail and return the text unchanged, for every text and
\* every value of the charset or coding, declared or not
C21_SameCodingIsIdentity ==
    SameCoding(manipulation)
    => (pc = "manipulate" /\ (Manipulated => text = resolved))

C21_Witness ==
    /\ Manipulated
    /\ manipulation = Entities("bogus", "bogus", "bogus", "bogus")
    /\ resolved = <<38, 97, 109, 112, 59>>
    /\ text = resolved

(***************************************************************************)
(* case 'pad'                                                              *)
(***************************************************************************)
PadOf(pad, targetLength, padString) ==
    [action |-> "pad", pad |-> pad, targetLength |-> targetLength,
     padString |-> padString]
PadTargets == {JNull, JNum(-1), JNum(0), JNum(1), JNum(2), JNum(5), JNum(7)}
\* the fill strings "", " ", "*", "xy" and "abc"
PadStrings == {<<>>, <<32>>, <<42>>, <<120, 121>>, <<97, 98, 99>>}
PadTexts == {<<>>, AbText, AbcdText, HelloText}
PadManipulations ==
    {PadOf(p, t, f) : p \in Pads \cup {"bogus"}, t \in PadTargets, f \in PadStrings}

PadInit == ManipulationInit(PadManipulations, PadTexts)
PadNext ==
    \/ Manipulate
    \/ ManipulateThrows
SpecPad == PadInit /\ [][PadNext]_vars

\* the units of t are the fill string f written over and over from its start
IsFilling(t, f) == \A i \in 1 .. Len(t) : t[i] = f[((i - 1) % Len(f)) + 1]

\* t is s extended to the target length n with the fill string f on the side
\* the pad names
IsPadded(s, t, pad, n, f) ==
    /\ Len(t) = (IF Len(s) >= n THEN Len(s) ELSE n)
    /\ pad = "padStart" =>
         EndsWith(t, s) /\ IsFilling(SubSeq(t, 1, Len(t) - Len(s)), f)
    /\ pad = "padEnd" =>
         IsPrefix(s, t) /\ IsFilling(SubSeq(t, Len(s) + 1, Len(t)), f)
    /\ Len(s) >= n => t = s

\* C22: pad with a fill string that is not empty gives a text whose length is
\* the larger of the text's length and the target length, that ends
\* (padStart) or starts (padEnd) with the original text and is filled with the
\* fill string on the other side; a text at least as long as the target
\* length is unchanged; padStart to 5 with " " turns "ab" into "   ab"
C22_PadToTargetLength ==
    (Manipulated /\ manipulation.pad \in Pads /\ manipulation.padString # <<>>)
    => /\ IsPadded(resolved, text, manipulation.pad,
                   NumberOf(manipulation.targetLength), manipulation.padString)
       /\ (/\ manipulation = PadOf("padStart", JNum(5), <<32>>)
           /\ resolved = AbText)
          => text = <<32, 32, 32>> \o AbText

C22_Witness ==
    /\ Manipulated
    /\ manipulation = PadOf("padStart", JNum(5), <<32>>)
    /\ resolved = AbText
    /\ text = <<32, 32, 32, 97, 98>>

\* the two codings differ, both are declared ones, and so are the two modes
DistinctCodings(m) ==
    /\ m.action = "decodeEncodeEntities"
    /\ m.decodeWithEntities \in EntityCodings
    /\ m.encodeWithEntities \in EntityCodings
    /\ m.decodeWithEntities # m.encodeWithEntities
    /\ m.entitiesDecodeMode \in EntitiesDecodeModes
    /\ m.entitiesEncodeMode \in EntitiesEncodeModes

\* the decode step and the encode step the options select
SelectedDecode(coding, mode, s) ==
    CASE coding = "nothing" -> s
      [] coding = "url" -> decodeURI(s).text
      [] coding = "urlComponent" -> decodeURIComponent(s).text
      [] coding = "xml" /\ mode = "legacy" -> decodeXML(s)
      [] coding = "xml" /\ mode = "strict" -> decodeXMLStrict(s)
      [] coding = "html" /\ mode = "legacy" -> decodeHTML(s)
      [] coding = "html" /\ mode = "strict" -> decodeHTMLStrict(s)
SelectedEncode(coding, mode, s) ==
    CASE coding = "nothing" -> s
      [] coding = "url" -> encodeURI(s).text
      [] coding = "urlComponent" -> encodeURIComponent(s).text
      [] coding = "xml" /\ mode = "utf8" -> escapeUTF8(s)
      [] coding = "xml" /\ mode \in {"extensive", "nonAscii"} -> encodeXML(s)
      [] coding = "html" /\ mode = "extensive" -> encodeHTML(s)
      [] coding = "html" /\ mode = "utf8" -> escapeUTF8(s)
      [] coding = "html" /\ mode = "nonAscii" -> encodeNonAsciiHTML(s)
SelectedDecodeOf(m, s) ==
    SelectedDecode(m.decodeWithEntities, m.entitiesDecodeMode, s)
SelectedEncodeOf(m, s) ==
    SelectedEncode(m.encodeWithEntities, m.entitiesEncodeMode, s)

C24_TextOfOwnSource ==
    pc = "manipulate"
    => /\ ReadOperation(dataSource, item, newItemJson, newItemBinary)
            = ReadText(resolved)
       /\ RunManipulations(resolved,
                           SubSeq(group.manipulations, 1, manipulationIndex - 1))
            = Ok(text)

\* C24 happens: the second item's first data source was skipped, the second
\* one has just been read after the first item was pushed
C24_Witness ==
    /\ JustRead
    /\ itemIndex = 1
    /\ groupIndex = 1
    /\ sourceIndex = 2
    /\ writtenJson = <<>>
    /\ writtenBinary = <<>>
    /\ text = resolved
    /\ Len(returnData) = 1

(***************************************************************************)
(* The input items.                                                        *)
(***************************************************************************)
\* C25: no step of execute changes an input item: the writes go to the
\* output item, which shares no object with the item, so a toJSON into an
\* object the item has and a toFile to a binary property the item has leave
\* the item as it came
C25_InputUnchanged == [][items' = items]_vars

\* C25 happens: without keepOnlySet a text was set at n.x, which the item
\* has inside its object n; the output item holds the text, the item null
C25_Witness ==
    /\ pc = "read"
    /\ ~keepOnlySet
    /\ item = ItemMixed
    /\ KeyNested \in DOMAIN writtenJson
    /\ Get(newItemJson, KeyNested) = JStr(writtenJson[KeyNested])
    /\ Get(item.json, KeyNested) = JNull

(***************************************************************************)
(* charsTrimStart, charsTrimEnd and charsTrim                              *)
(***************************************************************************)
\* the units "", " ", "a", "ab", "ba" and "aa"
TrimUnits == TrimStrings \cup {<<97, 97>>}
\* the texts of the trim and "aaa", "xaaa", "aba", "bab" and "  ab  "
TrimUnitTexts ==
    TrimTexts \cup {<<97, 97, 97>>, <<120, 97, 97, 97>>, <<97, 98, 97>>,
                    <<98, 97, 98>>, <<32, 32, 97, 98, 32, 32>>}
TrimUnitManipulations ==
    {TrimOf(t, u, TRUE) : t \in Trims \cup {"bogus"}, u \in TrimUnits}

TrimUnitInit == ManipulationInit(TrimUnitManipulations, TrimUnitTexts)
TrimUnitNext ==
    \/ Manipulate
    \/ ManipulateThrows
SpecTrimUnit == TrimUnitInit /\ [][TrimUnitNext]_vars

\* the helper the trim calls for a unit, applied to a text
TrimHelper(trim, s, u) ==
    CASE trim = "trimBoth" -> charsTrim(s, u)
      [] trim = "trimStart" -> charsTrimStart(s, u)
      [] trim = "trimEnd" -> charsTrimEnd(s, u)

\* C26: charsTrim gives what charsTrimEnd gives for the result of
\* charsTrimStart; each of the three helpers, applied to its own result,
\* returns it; and with the empty trim string each returns the text
C26_TrimHelperLaws ==
    (Manipulated /\ manipulation.trimStringUnit)
    => /\ charsTrim(resolved, manipulation.trimString)
            = charsTrimEnd(charsTrimStart(resolved, manipulation.trimString),
                           manipulation.trimString)
       /\ text = TrimHelper(manipulation.trim, resolved, manipulation.trimString)
       /\ TrimHelper(manipulation.trim, text, manipulation.trimString) = text
       /\ manipulation.trimString = <<>> => text = resolved

\* C26 happens: charsTrim of "xaaa" with the unit "aa" gave "xa"
C26_Witness ==
    /\ Manipulated
    /\ manipulation = TrimOf("trimBoth", <<97, 97>>, TRUE)
    /\ resolved = <<120, 97, 97, 97>>
    /\ text = <<120, 97>>

(***************************************************************************)
(* case 'substring', end 'position'                                        *)
(***************************************************************************)
\* an offset larger than the length counts as the length
AtMost(n, len) == IF n > len THEN len ELSE n

\* C27: substring in position mode with offsets that are not negative takes
\* each offset larger than the length as the length, and with a start
\* larger than the end it swaps the two: the result is the characters from
\* the end offset up to (excluding) the start offset
C27_PositionSwapsAndClamps ==
    (/\ Manipulated
     /\ manipulation.end = "position"
     /\ manipulation.startPosition.t = "number"
     /\ manipulation.startPosition.n >= 0
     /\ manipulation.endPosition.n >= 0)
    => text =
         IF manipulation.startPosition.n > manipulation.endPosition.n
         THEN SubSeq(resolved,
                     AtMost(manipulation.endPosition.n, Len(resolved)) + 1,
                     AtMost(manipulation.startPosition.n, Len(resolved)))
         ELSE SubSeq(resolved,
                     AtMost(manipulation.startPosition.n, Len(resolved)) + 1,
                     AtMost(manipulation.endPosition.n, Len(resolved)))

\* C27 happens: start 7 and end 2 on "abcd" gave "cd"
C27_Witness ==
    /\ Manipulated
    /\ manipulation = SubstringOf(JNum(7), "position", JNum(2), JNull)
    /\ resolved = AbcdText
    /\ text = <<99, 100>>

(***************************************************************************)
(* unescapeEscapedCharacters, seen through a replace with extended set:    *)
(* the value replaces the "X" of the text                                  *)
(***************************************************************************)
ReplaceExtendedOf(replaceMode, value) ==
    [action |-> "replace", replaceMode |-> replaceMode, substring |-> XText,
     value |-> value, replaceAll |-> FALSE, extended |-> TRUE]

\* \u and x in braces, for x one of 41, e9, 0041, 000041, FFFF, 10000,
\* 1F600, 10FFFF and 110000
BracedValues ==
    {<<92, 117, 123>> \o h \o <<125>> :
        h \in {<<52, 49>>, <<101, 57>>, <<48, 48, 52, 49>>,
               <<48, 48, 48, 48, 52, 49>>, <<70, 70, 70, 70>>,
               <<49, 48, 48, 48, 48>>, <<49, 70, 54, 48, 48>>,
               <<49, 48, 70, 70, 70, 70>>, <<49, 49, 48, 48, 48, 48>>}}
\* \u0041, \u00E9, \uffff, \x41, \xe9, \u12, \x4 and \u{}
HexValues ==
    {<<92, 117, 48, 48, 52, 49>>, <<92, 117, 48, 48, 69, 57>>,
     <<92, 117, 102, 102, 102, 102>>, <<92, 120, 52, 49>>,
     <<92, 120, 101, 57>>, <<92, 117, 49, 50>>, <<92, 120, 52>>,
     <<92, 117, 123, 125>>}
\* a backslash and one of q \ n t 0 ' . a line feed, a carriage return and
\* U+2028, with "b" after it or nothing
EscapedValues ==
    {<<92, c>> \o r : c \in {113, 92, 110, 116, 48, 39, 46, 10, 13, 8232},
                      r \in {<<>>, <<98>>}}
\* "", "abc", "a-b" and a backslash by itself
PlainValues == {<<>>, <<97, 98, 99>>, <<97, 45, 98>>, <<92>>}
UnescapeValues == BracedValues \cup HexValues \cup EscapedValues \cup PlainValues
\* the texts "X", "aXb" and "ab"
UnescapeTexts == {XText, <<97, 88, 98>>, AbText}
UnescapeManipulations ==
    {ReplaceExtendedOf(mode, v) : mode \in {"substring", "bogus"},
                                  v \in UnescapeValues}

UnescapeInit == ManipulationInit(UnescapeManipulations, UnescapeTexts)
UnescapeNext ==
    \/ Manipulate
    \/ ManipulateThrows
SpecUnescape == UnescapeInit /\ [][UnescapeNext]_vars

\* the forms of a value: \u{H} with H a hexadecimal number up to 10FFFF,
\* \uHHHH, \xHH, and a backslash with a character that starts none of
\* these and no backslash after it
IsBraced(v) ==
    /\ Len(v) >= 5
    /\ SubSeq(v, 1, 3) = <<92, 117, 123>>
    /\ v[Len(v)] = 125
    /\ AllHex(SubSeq(v, 4, Len(v) - 1))
    /\ ParseHex(SubSeq(v, 4, Len(v) - 1)) <= 1114111
IsUnicode(v) ==
    Len(v) = 6 /\ SubSeq(v, 1, 2) = <<92, 117>> /\ AllHex(SubSeq(v, 3, 6))
IsShort(v) ==
    Len(v) = 4 /\ SubSeq(v, 1, 2) = <<92, 120>> /\ AllHex(SubSeq(v, 3, 4))
IsEscaped(v) ==
    /\ Len(v) >= 2
    /\ v[1] = 92
    /\ ~IsBraced(v) /\ ~IsUnicode(v) /\ ~IsShort(v)
    /\ 92 \notin Chars(SubSeq(v, 3, Len(v)))

\* the text after the replace of "X" by the value v
Inserted(v) == text = StatedReplace(resolved, XText, v, FALSE)

\* what the forms with digits give, and a value without a backslash
HexFormsUnescaped(v) ==
    /\ IsBraced(v) => Inserted(<<ParseHex(SubSeq(v, 4, Len(v) - 1)) % 65536>>)
    /\ IsUnicode(v) => Inserted(<<ParseHex(SubSeq(v, 3, 6))>>)
    /\ IsShort(v) => Inserted(<<ParseHex(SubSeq(v, 3, 4))>>)
    /\ 92 \notin Chars(v) => Inserted(v)

\* C28 as stated: a backslash followed by any character that starts no form
\* with digits yields that character
C28_UnescapeAsStated ==
    Manipulated
    => /\ HexFormsUnescaped(manipulation.value)
       /\ IsEscaped(manipulation.value)
          => Inserted(Tail(manipulation.value))

\* C28: unescapeEscapedCharacters turns \u{H}, H up to 10FFFF, into the one
\* code unit H mod 2^16, \uHHHH and \xHH into the code unit of that value;
\* \0 \' \" \n \r \v \t \b \f into the character they name; a backslash
\* followed by any other character that is no line terminator into that
\* character; a backslash before a line terminator or at the end stays, and
\* a string without a backslash is returned as it is
C28_Unescape ==
    Manipulated
    => /\ HexFormsUnescaped(manipulation.value)
       /\ IsEscaped(manipulation.value)
          => Inserted(IF SimpleEscape(manipulation.value[2]) >= 0
                      THEN <<SimpleEscape(manipulation.value[2])>>
                           \o SubSeq(manipulation.value, 3, Len(manipulation.value))
                      ELSE IF manipulation.value[2] \in LineTerminators
                      THEN manipulation.value
                      ELSE Tail(manipulation.value))
       /\ manipulation.value = <<92>> => Inserted(<<92>>)

\* C28 happens: \u{1F600} in place of the X of "aXb" gave the code unit F600
C28_Witness ==
    /\ Manipulated
    /\ manipulation.value = <<92, 117, 123, 49, 70, 54, 48, 48, 125>>
    /\ resolved = <<97, 88, 98>>
    /\ text = <<97, 62976, 98>>

(***************************************************************************)
(* case 'replace', replaceMode 'substring' and 'extendedSubstring': the    *)
(* value                                                                   *)
(***************************************************************************)
\* the values "#", "$&", "$1", "$$", "[$&]", "$`", "$'" and "$"
DollarValues ==
    {HashText, <<36, 38>>, <<36, 49>>, <<36, 36>>, <<91, 36, 38, 93>>,
     <<36, 96>>, <<36, 39>>, <<36>>}
\* the search strings "b", "bc", ".", "a.c", "z" and "$"
DollarSearchStrings ==
    {<<98>>, <<98, 99>>, <<46>>, <<97, 46, 99>>, <<122>>, <<36>>}
\* the texts "", "abcabc", "a.c" and "a$b"
DollarTexts == {<<>>, AbcAbcText, <<97, 46, 99>>, <<97, 36, 98>>}
ReplaceValueManipulations ==
    {ReplaceSubstringOf(mode, s, v, a) :
        mode \in {"substring", "extendedSubstring", "bogus"},
        s \in DollarSearchStrings, v \in DollarValues, a \in BOOLEAN}

ReplaceValueInit == ManipulationInit(ReplaceValueManipulations, DollarTexts)
ReplaceValueNext ==
    \/ Manipulate
    \/ ManipulateThrows
SpecReplaceValue == ReplaceValueInit /\ [][ReplaceValueNext]_vars

\* the search string of the mode
SearchString(m) ==
    IF m.replaceMode = "extendedSubstring"
    THEN unescapeEscapedCharacters(m.substring) ELSE m.substring

\* C29: in the modes substring and extendedSubstring without extended, each
\* replaced occurrence of the search string gives way to the value as it is
\* written, whatever "$" sequences the value holds and whatever characters
\* the search string holds
C29_ValueVerbatim ==
    Manipulated
    => text = StatedReplace(resolved, SearchString(manipulation),
                            manipulation.value, manipulation.replaceAll)

(***************************************************************************)
(* case 'replace', predefinedRule 'characterGroups': no class enabled      *)
(***************************************************************************)
\* the values "", "-", "#", "$&" and "$$"
GroupValues == {<<>>, <<45>>, HashText, <<36, 38>>, <<36, 36>>}
\* the texts "", "ab" and "a1 b"
NoGroupTexts == {<<>>, AbText, <<97, 49, 32, 98>>}
NoGroupManipulations ==
    {CharacterGroupsOf(cs, 0, 0, 0, 0, v) :
        cs \in SUBSET CharacterClasses, v \in GroupValues}
    \cup {CharacterGroupsOf({"number"}, MaxCount, 1, 0, 0, v) : v \in GroupValues}

NoGroupInit == ManipulationInit(NoGroupManipulations, NoGroupTexts)
NoGroupNext ==
    \/ Manipulate
    \/ ManipulateThrows
SpecNoGroup == NoGroupInit /\ [][NoGroupNext]_vars

\* none of the four classes is enabled
NoClass(m) == ~m.newline /\ ~m.number /\ ~m.alpha /\ ~m.whitespace

\* C30: characterGroups with no class enabled inserts the value before
\* every character of the text and at its end ("ab" with "-" gives
\* "-a-b-"), and returns the text unchanged only if the value is empty
C30_NoClassInsertsEverywhere ==
    (Manipulated /\ NoClass(manipulation))
    => /\ text = StatedReplace(resolved, <<>>, manipulation.value, TRUE)
       /\ text = resolved => manipulation.value = <<>>
=============================================================================
